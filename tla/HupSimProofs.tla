---------------------------- MODULE HupSimProofs -----------------------------
(***************************************************************************)
(* Messages and the network they go through, for all messages, topologies, *)
(* addresses and sizes of queues.  First Wire: a message becomes a         *)
(* datagram and the same message again.  Then HupSim: the tables lead to   *)
(* their destinations (RoutesAlwaysShortest), so that what is on its way   *)
(* from one peer to another is one sequence, and every step of a router is *)
(* a step of Channel or none (NetworkIsChannel).                           *)
(***************************************************************************)
EXTENDS HupSim, RoutingProofs, SequenceTheorems

-----------------------------------------------------------------------------
(* Byte order.  Ranges are stated as inequalities, for the sake of the     *)
(* prover's linear arithmetic.                                             *)

\* Quotient and remainder by B, in a form without div and mod.
LEMMA Quotient ==
    ASSUME NEW x \in Int
    PROVE  \E q, r \in Int :
              /\ q = x \div 256 /\ r = (x % 256)
              /\ 0 <= r /\ r <= 255 /\ x = q * 256 + r
<1>1. /\ x \div 256 \in Int /\ x % 256 \in 0 .. 255
      /\ x = (x \div 256) * 256 + (x % 256)
  OBVIOUS
<1> WITNESS x \div 256 \in Int, x % 256 \in Int
<1> QED BY <1>1

\* The same for words of 16 bits.
LEMMA QuotientOfWords ==
    ASSUME NEW x \in Int
    PROVE  \E q, r \in Int :
              /\ q = x \div 65536 /\ r = (x % 65536)
              /\ 0 <= r /\ r <= 65535 /\ x = q * 65536 + r
<1>1. /\ x \div 65536 \in Int /\ (x % 65536) \in Int
      /\ 0 <= (x % 65536) /\ (x % 65536) <= 65535
      /\ x = (x \div 65536) * 65536 + (x % 65536)
  OBVIOUS
<1> WITNESS x \div 65536 \in Int, x % 65536 \in Int
<1> QED BY <1>1

\* The two bytes of a number, and those of what htons makes of it.
LEMMA SwappedBytes ==
    ASSUME NEW n \in Int
    PROVE  \E q, r \in Int :
              /\ 0 <= r /\ r <= 255 /\ n = q * 256 + r
              /\ Swap(n) = r * 256 + q
<1>1. PICK q, r \in Int :
         /\ q = n \div 256 /\ r = (n % 256)
         /\ 0 <= r /\ r <= 255 /\ n = q * 256 + r
  BY Quotient
<1>2. Swap(n) = r * 256 + q
  BY <1>1 DEF Swap
<1> WITNESS q \in Int, r \in Int
<1> QED BY <1>1, <1>2

\* htons is its own inverse.
LEMMA SwapTwice ==
    ASSUME NEW n \in Int, 0 <= n, n <= 65535
    PROVE  /\ Swap(n) \in Int /\ 0 <= Swap(n) /\ Swap(n) <= 65535
           /\ Swap(Swap(n)) = n
<1>1. PICK q, r \in Int :
         0 <= r /\ r <= 255 /\ n = q * 256 + r /\ Swap(n) = r * 256 + q
  BY SwappedBytes
<1>2. 0 <= q /\ q <= 255
  BY <1>1
<1>3. PICK m \in Int : m = Swap(n) /\ 0 <= m /\ m <= 65535
  BY <1>1, <1>2
<1>4. PICK p, s \in Int :
         0 <= s /\ s <= 255 /\ m = p * 256 + s /\ Swap(m) = s * 256 + p
  BY SwappedBytes
<1>5. m = r * 256 + q
  BY <1>1, <1>3
<1>6. p = r /\ s = q
  BY <1>1, <1>2, <1>4, <1>5
<1> QED BY <1>1, <1>3, <1>4, <1>6

\* ntohl is the inverse of htonl.
LEMMA NumberOfWords ==
    ASSUME NEW n \in Int, 0 <= n, n < 65536 * 65536
    PROVE  Number(Words(n)) = n
<1>1. PICK q, r \in Int :
         /\ q = n \div 65536 /\ r = (n % 65536)
         /\ 0 <= r /\ r <= 65535 /\ n = q * 65536 + r
  BY QuotientOfWords
<1>2. 0 <= r /\ r <= 65535 /\ n = q * 65536 + r
  BY <1>1
<1>3. 0 <= q /\ q <= 65535
  BY <1>2
<1>4. Words(n) = <<Swap(q), Swap(r)>>
  BY <1>1 DEF Words
<1>5. Number(Words(n)) = Swap(Swap(q)) * 65536 + Swap(Swap(r))
  BY <1>4 DEF Number
<1>6. Swap(Swap(q)) = q /\ Swap(Swap(r)) = r
  BY <1>2, <1>3, SwapTwice
<1> QED BY <1>2, <1>5, <1>6

-----------------------------------------------------------------------------
(* Lengths. *)

\* The length of a request or an answer for n chunks in network order, as which
\* it is used, is not below the length but for n = 63, where it is 5.
LEMMA SwappedLengths ==
    ASSUME NEW n \in Int, 0 <= n, n <= 74, n # 63
    PROVE  Swap(20 + n * 20) >= 20 + n * 20
<1>1. PICK m \in Int : m = 20 + n * 20 /\ m <= 1500
  OBVIOUS
<1>2. PICK q, r \in Int :
         0 <= r /\ r <= 255 /\ m = q * 256 + r /\ Swap(m) = r * 256 + q
  BY SwappedBytes
<1>3. q >= 0 /\ q <= 5 /\ r >= q
  BY <1>1, <1>2
<1>4. Swap(m) >= m
  BY <1>2, <1>3
<1> QED BY <1>1, <1>4

\* The other messages: ACK, GET and DATA.
LEMMA OtherLengths ==
    Swap(16) = 4096 /\ Swap(36) = 9216 /\ Swap(1040) = 4100 /\ Swap(1280) = 5
BY DEF Swap

\* The lesser of two numbers.
LEMMA MinOfTwo ==
    ASSUME NEW a \in Int, NEW b \in Int
    PROVE  Min({a, b}) = IF a <= b THEN a ELSE b
BY DEF Min

-----------------------------------------------------------------------------
(* The header. *)

\* The numbers of packet_type, and the type of a number.
LEMMA Codes ==
    /\ Code("WHOHAS") = 0 /\ Code("IHAVE") = 1 /\ Code("GET") = 2
    /\ Code("DATA") = 3 /\ Code("ACK") = 4
BY DEF Code, Types

\* A type is found by its number.
LEMMA TypeOfCode ==
    ASSUME NEW type \in {"WHOHAS", "IHAVE", "GET", "DATA", "ACK"}
    PROVE  Code(type) \in 0 .. 4 /\ Types[Code(type) + 1] = type
BY Codes DEF Types

\* ntoh_packet undoes hton_packet if each field survives its two swaps.
LEMMA HeaderRestored ==
    ASSUME NEW type, NEW len, Swap(Swap(len)) = len,
           NEW seq, Number(Words(seq)) = seq,
           NEW ack, Number(Words(ack)) = ack
    PROVE  LET h == [magic |-> MAGIC, version |-> VERSION, type |-> type,
                     header_len |-> HEADER_SIZE, packet_len |-> len,
                     seq_num |-> seq, ack_num |-> ack]
           IN  /\ hton_packet(h).packet_len = Swap(len)
               /\ ntoh_packet(hton_packet(h)) = h
<1>1. Swap(Swap(MAGIC)) = MAGIC /\ Swap(Swap(HEADER_SIZE)) = HEADER_SIZE
  BY SwapTwice DEF MAGIC, HEADER_SIZE
<1> QED BY <1>1 DEF hton_packet, ntoh_packet

-----------------------------------------------------------------------------
(* From packet to handler. *)

\* A packet whose length does not shrink in network order arrives whole.
LEMMA Fits ==
    ASSUME NEW length \in Int, NEW needed \in Int, needed <= 1500,
           length >= needed
    PROVE  Min({Min({length, PACKETSIZEMAX - SPIFFY_HEADER_SIZE}), MAX_SIZE}) >= needed
<1>1. PACKETSIZEMAX - SPIFFY_HEADER_SIZE = 2032 /\ MAX_SIZE = 1500
  BY DEF PACKETSIZEMAX, SPIFFY_HEADER_SIZE, MAX_SIZE
<1>2. PICK cut \in Int : cut = Min({length, 2032}) /\ cut >= needed
  BY MinOfTwo
<1>3. Min({cut, 1500}) >= needed
  BY <1>2, MinOfTwo
<1> QED BY <1>1, <1>2, <1>3

\* A message whose datagram is long enough is handled as it was sent.
LEMMA Arrives ==
    ASSUME NEW type \in {"WHOHAS", "IHAVE", "GET", "DATA", "ACK"},
           NEW data_len \in Int, 0 <= data_len, data_len <= 1484,
           Swap(16 + data_len) >= 16 + data_len,
           NEW seq \in Int, Number(Words(seq)) = seq,
           NEW ack \in Int, Number(Words(ack)) = ack,
           type = "DATA" => seq # 0, type # "DATA" => seq = 0,
           type # "ACK" => ack = 0,
           NEW data, NEW from, NEW to
    PROVE  LET m == Message(type, data_len, seq, ack, data)
               d == Datagram(from, to, m)
           IN  Handled(Cut(d, PACKETSIZEMAX - SPIFFY_HEADER_SIZE)) = <<m>>
<1> DEFINE m == Message(type, data_len, seq, ack, data)
           h == [magic |-> MAGIC, version |-> VERSION, type |-> Code(type),
                 header_len |-> HEADER_SIZE, packet_len |-> HEADER_SIZE + data_len,
                 seq_num |-> seq, ack_num |-> ack]
           d == Datagram(from, to, m)
           c == Cut(Cut(d, PACKETSIZEMAX - SPIFFY_HEADER_SIZE), MAX_SIZE)
<1>1. HEADER_SIZE + data_len = 16 + data_len
  BY DEF HEADER_SIZE
<1>2. Swap(Swap(16 + data_len)) = 16 + data_len /\ Swap(16 + data_len) \in Int
  <2>1. PICK len \in Int : len = 16 + data_len /\ 0 <= len /\ len <= 65535
    OBVIOUS
  <2>2. Swap(Swap(len)) = len /\ Swap(len) \in Int
    BY <2>1, SwapTwice
  <2> QED BY <2>1, <2>2
<1>3. hton_packet(h).packet_len = Swap(16 + data_len) /\ ntoh_packet(hton_packet(h)) = h
  BY <1>1, <1>2, HeaderRestored
<1>4. Packet(m) = [header |-> hton_packet(h), data |-> data]
  BY DEF Packet, Message
<1>5. c.packet = Packet(m)
      /\ c.length = Min({Min({Packet(m).header.packet_len,
                              PACKETSIZEMAX - SPIFFY_HEADER_SIZE}), MAX_SIZE})
  BY DEF Cut, Datagram
<1>6. c.packet.header = hton_packet(h) /\ c.packet.data = data
  BY <1>4, <1>5
<1>7. c.length >= 16 + data_len
  <2>1. PICK needed, length \in Int :
           /\ needed = 16 + data_len /\ length = Swap(16 + data_len)
           /\ needed <= 1500 /\ length >= needed
    BY <1>2
  <2>2. Min({Min({length, PACKETSIZEMAX - SPIFFY_HEADER_SIZE}), MAX_SIZE}) >= needed
    BY <2>1, Fits
  <2>3. Packet(m).header.packet_len = length
    BY <1>3, <1>4, <2>1
  <2> QED BY <1>5, <2>1, <2>2, <2>3
<1>8. Whole(c)
  BY <1>1, <1>3, <1>6, <1>7 DEF Whole
<1>9. Valid(h)
  BY Codes, TypeOfCode DEF Valid
<1>10. Message(Types[h.type + 1], h.packet_len - HEADER_SIZE, h.seq_num,
               h.ack_num, data) = m
  BY TypeOfCode DEF Message, HEADER_SIZE
<1> HIDE DEF h, m, d, c
<1>11. Handled(Cut(d, PACKETSIZEMAX - SPIFFY_HEADER_SIZE)) = <<m>>
  BY <1>3, <1>6, <1>8, <1>9, <1>10 DEF Handled, c
<1> QED BY <1>11 DEF d, m

\* Every message is handled as it was sent, whatever memory holds behind the
\* packets and although their lengths have the wrong byte order: unless it asks
\* for, or offers, exactly 63 chunks.
THEOREM MessagesArrive ==
    ASSUME NEW Hash, NEW Bytes, NEW m \in Sendable(Hash, Bytes),
           m.data_len # 4 + 63 * SHA1_HASH_SIZE,
           NEW from, NEW to
    PROVE  Handled(Cut(Datagram(from, to, m), PACKETSIZEMAX - SPIFFY_HEADER_SIZE))
               = <<m>>
<1>1. MAX_CHUNKS_NUM = 74 /\ SHA1_HASH_SIZE = 20
  BY DEF MAX_CHUNKS_NUM, MAX_SIZE, HEADER_SIZE, SHA1_HASH_SIZE
<1>2. Number(Words(0)) = 0
  BY NumberOfWords
<1>3. ASSUME NEW n \in Int, 0 <= n, n <= 74, n # 63
      PROVE  /\ 4 + n * SHA1_HASH_SIZE \in Int
             /\ 0 <= 4 + n * SHA1_HASH_SIZE /\ 4 + n * SHA1_HASH_SIZE <= 1484
             /\ Swap(16 + (4 + n * SHA1_HASH_SIZE)) >= 16 + (4 + n * SHA1_HASH_SIZE)
  <2>1. 16 + (4 + n * SHA1_HASH_SIZE) = 20 + n * 20
    BY <1>1
  <2>2. Swap(20 + n * 20) >= 20 + n * 20
    BY <1>3, SwappedLengths
  <2> QED BY <1>1, <1>3, <2>1, <2>2
<1>4. CASE \E n \in 0 .. MAX_CHUNKS_NUM, s \in SUBSET Hash : m = WHOHAS(n, s)
  <2>1. PICK n \in Int, s \in SUBSET Hash : m = WHOHAS(n, s) /\ 0 <= n /\ n <= 74
    BY <1>1, <1>4
  <2>2. n # 63
    BY <2>1 DEF WHOHAS, Message
  <2>3. m = Message("WHOHAS", 4 + n * SHA1_HASH_SIZE, 0, 0, s)
    BY <2>1 DEF WHOHAS
  <2> QED BY <1>2, <1>3, <2>1, <2>2, <2>3, Arrives
<1>5. CASE \E s \in SUBSET Hash :
              IsFiniteSet(s) /\ Cardinality(s) <= MAX_CHUNKS_NUM /\ m = IHAVE(s)
  <2>1. PICK s \in SUBSET Hash :
               IsFiniteSet(s) /\ Cardinality(s) <= MAX_CHUNKS_NUM /\ m = IHAVE(s)
    BY <1>5
  <2>2. PICK n \in Int : n = Cardinality(s) /\ 0 <= n /\ n <= 74
    BY <1>1, <2>1, FS_CardinalityType
  <2>3. m = Message("IHAVE", 4 + n * SHA1_HASH_SIZE, 0, 0, s)
    BY <2>1, <2>2 DEF IHAVE
  <2>4. n # 63
    BY <2>3 DEF Message
  <2> QED BY <1>2, <1>3, <2>2, <2>3, <2>4, Arrives
<1>6. CASE \E h \in Hash : m = GET(h)
  <2>1. PICK h \in Hash : m = Message("GET", 20, 0, 0, {h})
    BY <1>1, <1>6 DEF GET
  <2>2. Swap(16 + 20) >= 16 + 20
    BY OtherLengths
  <2> QED BY <1>2, <2>1, <2>2, Arrives
<1>7. CASE \E n \in 1 .. 512, b \in Bytes : m = DATA(n, b)
  <2>1. PICK n \in Int, b \in Bytes : m = DATA(n, b) /\ 1 <= n /\ n <= 512
    BY <1>7
  <2>2. Swap(16 + 1024) >= 16 + 1024
    BY OtherLengths
  <2>3. Number(Words(n)) = n /\ n # 0
    BY <2>1, NumberOfWords
  <2>4. m = Message("DATA", 1024, n, 0, {b})
    BY <2>1 DEF DATA
  <2> QED BY <1>2, <2>2, <2>3, <2>4, Arrives
<1>8. CASE \E n \in 0 .. 512 : m = ACK(n)
  <2>1. PICK n \in Int : m = ACK(n) /\ 0 <= n /\ n <= 512
    BY <1>8
  <2>2. Swap(16 + 0) >= 16 + 0
    BY OtherLengths
  <2>3. Number(Words(n)) = n
    BY <2>1, NumberOfWords
  <2>4. m = Message("ACK", 0, 0, n, {})
    BY <2>1 DEF ACK
  <2> QED BY <1>2, <2>2, <2>3, <2>4, Arrives
<1> QED BY <1>4, <1>5, <1>6, <1>7, <1>8 DEF Sendable

-----------------------------------------------------------------------------
(* Requests. *)

\* Quotient and remainder by MAX_CHUNKS_NUM, which is 74.
LEMMA Quotient74 ==
    ASSUME NEW x \in Int
    PROVE  \E q, r \in Int :
              q = x \div 74 /\ 0 <= r /\ r <= 73 /\ x = q * 74 + r
<1>1. /\ x \div 74 \in Int /\ (x % 74) \in Int
      /\ 0 <= (x % 74) /\ (x % 74) <= 73
      /\ x = (x \div 74) * 74 + (x % 74)
  OBVIOUS
<1> WITNESS x \div 74 \in Int, x % 74 \in Int
<1> QED BY <1>1

\* A part is an interval.
LEMMA PartIsInterval ==
    ASSUME NEW n \in Int, NEW k \in Int, NEW i \in Int
    PROVE  i \in Part(n, k) <=> (k - 1) * 74 < i /\ i <= k * 74 /\ i <= n
<1>1. MAX_CHUNKS_NUM = 74
  BY DEF MAX_CHUNKS_NUM, MAX_SIZE, HEADER_SIZE, SHA1_HASH_SIZE
<1>2. PICK top \in Int : top = k * 74
  OBVIOUS
<1>3. Min({top, n}) \in Int /\ (i <= Min({top, n}) <=> i <= top /\ i <= n)
  BY MinOfTwo
<1> QED BY <1>1, <1>2, <1>3 DEF Part

\* However many chunks are asked for, every one of them is asked for in exactly
\* one request, and no request is for more chunks than fit a packet.
THEOREM RequestsCover ==
    ASSUME NEW n \in Nat
    PROVE  /\ \A k \in 1 .. PacketsFor(n) :
                 /\ Part(n, k) \subseteq 1 .. n
                 /\ IsFiniteSet(Part(n, k)) /\ Cardinality(Part(n, k)) <= MAX_CHUNKS_NUM
           /\ \A i \in 1 .. n : \E k \in 1 .. PacketsFor(n) :
                 /\ i \in Part(n, k)
                 /\ \A l \in 1 .. PacketsFor(n) : i \in Part(n, l) => l = k
<1>1. MAX_CHUNKS_NUM = 74
  BY DEF MAX_CHUNKS_NUM, MAX_SIZE, HEADER_SIZE, SHA1_HASH_SIZE
<1>2. PICK p, s \in Int : p = n \div 74 /\ 0 <= s /\ s <= 73 /\ n = p * 74 + s
  BY Quotient74
<1>3. PacketsFor(n) = IF n > 74 THEN p + 1 ELSE 1
  BY <1>1, <1>2 DEF PacketsFor
<1>4. ASSUME NEW k \in 1 .. PacketsFor(n)
      PROVE  /\ Part(n, k) \subseteq 1 .. n
             /\ IsFiniteSet(Part(n, k)) /\ Cardinality(Part(n, k)) <= MAX_CHUNKS_NUM
  <2>1. PICK top \in Int :
           /\ Part(n, k) = (k - 1) * 74 + 1 .. top
           /\ top <= k * 74 /\ top <= n
    <3>1. PICK a \in Int : a = k * 74
      OBVIOUS
    <3> QED BY <1>1, <3>1, MinOfTwo DEF Part
  <2>2. PICK low \in Int : low = (k - 1) * 74 + 1 /\ low >= 1
    OBVIOUS
  <2>3. /\ IsFiniteSet(low .. top)
        /\ Cardinality(low .. top) = IF low > top THEN 0 ELSE top - low + 1
    BY FS_Interval
  <2> QED BY <1>1, <2>1, <2>2, <2>3
<1>5. ASSUME NEW i \in 1 .. n
      PROVE  \E k \in 1 .. PacketsFor(n) :
                /\ i \in Part(n, k)
                /\ \A l \in 1 .. PacketsFor(n) : i \in Part(n, l) => l = k
  <2>1. PICK q, r \in Int : 0 <= r /\ r <= 73 /\ i - 1 = q * 74 + r
    <3>1. PICK j \in Int : j = i - 1
      OBVIOUS
    <3>2. PICK q, r \in Int : q = j \div 74 /\ 0 <= r /\ r <= 73 /\ j = q * 74 + r
      BY Quotient74
    <3> QED BY <3>1, <3>2
  <2>2. PICK k \in Int : k = q + 1 /\ (k - 1) * 74 < i /\ i <= k * 74
    BY <2>1
  <2>3. k \in 1 .. PacketsFor(n)
    BY <1>2, <1>3, <2>1, <2>2
  <2>4. i \in Part(n, k)
    BY <2>2, PartIsInterval
  <2>5. ASSUME NEW l \in 1 .. PacketsFor(n), i \in Part(n, l)
        PROVE  l = k
    <3>1. (l - 1) * 74 < i /\ i <= l * 74
      BY <1>3, <2>5, PartIsInterval
    <3> QED BY <2>2, <3>1
  <2> QED BY <2>3, <2>4, <2>5
<1> QED BY <1>4, <1>5

-----------------------------------------------------------------------------
(* Addresses. *)

\* Least and greatest of one element.
LEMMA MinMaxOfOne ==
    ASSUME NEW a \in Int
    PROVE  Min({a}) = a /\ Max({a}) = a
BY DEF Min, Max

\* nodes.map has N lines, each with an id and a port of its own, and an address.
OwnAddresses(N) ==
    /\ DOMAIN nodes_map = 1 .. N /\ Len(nodes_map) = N
    /\ \A k, l \in 1 .. N :
          /\ nodes_map[k].id = nodes_map[l].id => k = l
          /\ nodes_map[k].port = nodes_map[l].port => k = l
    /\ \A k \in 1 .. N : nodes_map[k].addr # "0.0.0.0"

\* The node of line i of nodes.map, as the peers find it by its id or its port.
LEMMA Lookups ==
    ASSUME NEW N \in Nat, OwnAddresses(N), NEW i \in 1 .. N
    PROVE  /\ bt_peer_info(nodes_map[i].id) = nodes_map[i]
           /\ find_peer(nodes_map[i].port) = nodes_map[i].id
           /\ nodes(nodes_map[i].addr, nodes_map[i].port) = nodes_map[i].id
<1> DEFINE j == N - i + 1
<1>0. /\ DOMAIN nodes_map = 1 .. N /\ Len(nodes_map) = N
      /\ \A k, l \in 1 .. N :
            /\ nodes_map[k].id = nodes_map[l].id => k = l
            /\ nodes_map[k].port = nodes_map[l].port => k = l
  BY DEF OwnAddresses
<1>1. /\ DOMAIN config_peers = 1 .. N
      /\ \A k \in 1 .. N : config_peers[k] = nodes_map[N - k + 1]
  BY <1>0 DEF config_peers, Reverse
<1>2. j \in 1 .. N /\ config_peers[j] = nodes_map[i]
  BY <1>1
<1>3. \A k \in 1 .. N : N - k + 1 \in 1 .. N /\ (N - k + 1 = i => k = j)
  OBVIOUS
<1>4. {k \in DOMAIN config_peers : config_peers[k].id = nodes_map[i].id} = {j}
  BY <1>0, <1>1, <1>2, <1>3
<1>5. {k \in DOMAIN config_peers : config_peers[k].port = nodes_map[i].port} = {j}
  BY <1>0, <1>1, <1>2, <1>3
<1>6. {k \in DOMAIN nodes_map : nodes_map[k].addr = nodes_map[i].addr
                              /\ nodes_map[k].port = nodes_map[i].port} = {i}
  BY <1>0
<1> HIDE DEF j
<1>7. Min({j}) = j /\ Max({i}) = i
  <2>1. i \in Int /\ j \in Int
    BY <1>2
  <2> QED BY <2>1, MinMaxOfOne, Zenon
<1>8. bt_peer_info(nodes_map[i].id) = nodes_map[i]
  BY <1>2, <1>4, <1>7 DEF bt_peer_info
<1>9. find_peer(nodes_map[i].port) = nodes_map[i].id
  BY <1>2, <1>5, <1>7 DEF find_peer
<1>10. nodes(nodes_map[i].addr, nodes_map[i].port) = nodes_map[i].id
  BY <1>6, <1>7 DEF nodes
<1> QED BY <1>8, <1>9, <1>10

\* If no two lines of nodes.map have the same id or the same port, and none has
\* the address 0.0.0.0, a datagram goes where it was sent, and the receiver knows
\* who sent it: from its port alone, and although peers do not know their address.
THEOREM Addressed ==
    ASSUME NEW N \in Nat, OwnAddresses(N),
           NEW i \in 1 .. N, NEW j \in 1 .. N, NEW m
    PROVE  LET d == Datagram(nodes_map[i].id, nodes_map[j].id, m)
           IN  /\ Destination(d) = nodes_map[j].id
               /\ find_peer(d.lSrcPort) = nodes_map[i].id
<1> DEFINE d == Datagram(nodes_map[i].id, nodes_map[j].id, m)
<1>1. /\ bt_peer_info(nodes_map[i].id) = nodes_map[i]
      /\ bt_peer_info(nodes_map[j].id) = nodes_map[j]
  BY Lookups
<1>2. /\ d.lSrcPort = nodes_map[i].port
      /\ d.lDestAddr = nodes_map[j].addr /\ d.lDestPort = nodes_map[j].port
  BY <1>1 DEF Datagram
<1>3. /\ find_peer(nodes_map[i].port) = nodes_map[i].id
      /\ nodes(nodes_map[j].addr, nodes_map[j].port) = nodes_map[j].id
  BY Lookups
<1> HIDE DEF d
<1>4. Destination(d) = nodes_map[j].id /\ find_peer(d.lSrcPort) = nodes_map[i].id
  <2>1. nodes_map[j].addr # "0.0.0.0"
    BY DEF OwnAddresses
  <2> QED
    BY <1>2, <1>3, <2>1 DEF Destination
<1> QED BY <1>4 DEF d

-----------------------------------------------------------------------------
(* Sequences. *)

\* \o and Append, as operators that the provers do not look into.
Before(s, t) == s \o t
Behind(s, m) == Append(s, m)
One(m) == <<m>>

\* What they yield are sequences of messages again, ...
LEMMA OneType ==
    ASSUME NEW M, NEW m \in M
    PROVE  One(m) \in Seq(M)
BY DEF One

LEMMA BeforeType ==
    ASSUME NEW M, NEW s \in Seq(M), NEW t \in Seq(M)
    PROVE  Before(s, t) \in Seq(M)
BY DEF Before

LEMMA BehindType ==
    ASSUME NEW M, NEW s \in Seq(M), NEW m \in M
    PROVE  Behind(s, m) \in Seq(M)
BY DEF Behind

\* ... and the laws of strings hold.
LEMMA BeforeEmpty ==
    ASSUME NEW M, NEW s \in Seq(M)
    PROVE  Before(s, <<>>) = s /\ Before(<<>>, s) = s
BY ConcatEmptySeq DEF Before

LEMMA BeforeBefore ==
    ASSUME NEW M, NEW s \in Seq(M), NEW t \in Seq(M), NEW u \in Seq(M)
    PROVE  Before(Before(s, t), u) = Before(s, Before(t, u))
BY ConcatAssociative DEF Before

LEMMA BehindBefore ==
    ASSUME NEW M, NEW s \in Seq(M), NEW t \in Seq(M), NEW m \in M
    PROVE  Behind(Before(s, t), m) = Before(s, Behind(t, m))
<1>1. <<m>> \in Seq(M)
  OBVIOUS
<1>2. /\ Append(s \o t, m) = (s \o t) \o <<m>> /\ Append(t, m) = t \o <<m>>
  BY AppendIsConcat, ConcatProperties
<1>3. (s \o t) \o <<m>> = s \o (t \o <<m>>)
  BY <1>1, ConcatAssociative
<1> QED
  BY <1>2, <1>3, Zenon DEF Before, Behind

LEMMA BehindEmpty ==
    ASSUME NEW m
    PROVE  Behind(<<>>, m) = <<m>>
BY DEF Behind

LEMMA BehindIsBefore ==
    ASSUME NEW M, NEW s \in Seq(M), NEW m \in M
    PROVE  Behind(s, m) = Before(s, One(m))
BY AppendIsConcat DEF Before, Behind, One

\* What is left without the element behind s.
LEMMA Removed ==
    ASSUME NEW M, NEW s \in Seq(M), NEW t \in Seq(M), NEW m \in M
    PROVE  LET w == Before(s, Before(One(m), t))
           IN  /\ Len(s) + 1 \in DOMAIN w
               /\ RemoveAt(w, Len(s) + 1) = Before(s, t)
<1> DEFINE w == s \o (<<m>> \o t)
<1>0. Len(s) \in Nat /\ Len(t) \in Nat
  OBVIOUS
<1>1. /\ w \in Seq(M) /\ Len(w) = Len(s) + 1 + Len(t)
      /\ \A i \in 1 .. Len(w) : w[i] = IF i <= Len(s) THEN s[i]
                                       ELSE IF i = Len(s) + 1 THEN m
                                       ELSE t[i - Len(s) - 1]
  OBVIOUS
<1> HIDE DEF w
<1>2. SubSeq(w, 1, Len(s)) = s
  <2>1. /\ SubSeq(w, 1, Len(s)) \in Seq(M) /\ Len(SubSeq(w, 1, Len(s))) = Len(s)
        /\ \A i \in 1 .. Len(s) : SubSeq(w, 1, Len(s))[i] = w[i]
    BY <1>1
  <2> QED
    BY <1>1, <2>1, SeqEqual
<1>3. SubSeq(w, Len(s) + 2, Len(w)) = t
  <2>1. /\ SubSeq(w, Len(s) + 2, Len(w)) \in Seq(M)
        /\ Len(SubSeq(w, Len(s) + 2, Len(w))) = Len(t)
        /\ \A i \in 1 .. Len(t) : SubSeq(w, Len(s) + 2, Len(w))[i] = w[Len(s) + 1 + i]
    BY <1>1
  <2>2. ASSUME NEW i \in 1 .. Len(t) PROVE w[Len(s) + 1 + i] = t[i]
    <3>1. /\ Len(s) + 1 + i \in 1 .. Len(w) /\ ~(Len(s) + 1 + i <= Len(s))
          /\ Len(s) + 1 + i # Len(s) + 1 /\ (Len(s) + 1 + i) - Len(s) - 1 = i
      BY <1>0, <1>1
    <3> QED
      BY <1>1, <3>1
  <2> QED
    BY <2>1, <2>2, SeqEqual
<1>4. RemoveAt(w, Len(s) + 1) = SubSeq(w, 1, Len(s)) \o SubSeq(w, Len(s) + 2, Len(w))
  <2>1. (Len(s) + 1) - 1 = Len(s) /\ (Len(s) + 1) + 1 = Len(s) + 2
    BY <1>0
  <2> QED
    BY <2>1 DEF RemoveAt
<1>5. Len(s) + 1 \in DOMAIN w
  BY <1>0, <1>1
<1> QED
  BY <1>2, <1>3, <1>4, <1>5, Zenon DEF w, Before, One

-----------------------------------------------------------------------------
(* The messages of one flow in a queue. *)

IsOf(d, f) == <<d.ID, d.to>> = f

\* g counts up what OfFlow yields.
IsOfFlow(g, q, f, M) ==
    /\ g \in [0 .. Len(q) -> Seq(M)]
    /\ g[0] = <<>> /\ OfFlow(q, f) = g[Len(q)]
    /\ \A n \in 1 .. Len(q) : g[n] = IF IsOf(q[n], f) THEN Behind(g[n - 1], q[n].message)
                                                     ELSE g[n - 1]

\* The recursive function OfFlow, unfolded.
LEMMA OfFlowDef ==
    ASSUME NEW D, NEW M, \A d \in D : d.message \in M, NEW q \in Seq(D), NEW f
    PROVE  \E g : IsOfFlow(g, q, f, M)
<1> DEFINE N == Len(q)
           step == [x \in (1 .. N) \X Seq(M) |->
                       IF IsOf(q[x[1]], f) THEN Behind(x[2], q[x[1]].message) ELSE x[2]]
           at == CHOOSE at : at = [n \in 0 .. Len(q) |->
                     IF n = 0 THEN <<>>
                     ELSE IF <<q[n].ID, q[n].to>> = f THEN Append(at[n - 1], q[n].message)
                     ELSE at[n - 1]]
<1>1. N \in Nat /\ \A n \in 1 .. N : q[n].message \in M
  OBVIOUS
<1>2. step \in [(1 .. N) \X Seq(M) -> Seq(M)]
  <2> SUFFICES ASSUME NEW n \in 1 .. N, NEW s \in Seq(M)
               PROVE  (IF IsOf(q[n], f) THEN Behind(s, q[n].message) ELSE s) \in Seq(M)
    OBVIOUS
  <2> QED
    BY <1>1, BehindType
<1>3. \A n \in 1 .. N : \A s \in Seq(M) : step[<<n, s>>] =
          IF IsOf(q[n], f) THEN Behind(s, q[n].message) ELSE s
  OBVIOUS
<1>4. <<>> \in Seq(M)
  OBVIOUS
<1> HIDE DEF step
<1>5. PICK g : Recursive(g, N, Seq(M), <<>>, step)
  BY <1>1, <1>2, <1>4, Recursion
<1>6. ASSUME NEW n \in 1 .. N
      PROVE  g[n] = IF IsOf(q[n], f) THEN Behind(g[n - 1], q[n].message) ELSE g[n - 1]
  <2>1. n - 1 \in 0 .. N /\ g[n - 1] \in Seq(M) /\ g[n] = step[<<n, g[n - 1]>>]
    BY <1>5 DEF Recursive
  <2> QED
    BY <1>3, <2>1
<1>7. g = [n \in 0 .. Len(q) |->
              IF n = 0 THEN <<>>
              ELSE IF <<q[n].ID, q[n].to>> = f THEN Append(g[n - 1], q[n].message)
              ELSE g[n - 1]]
  <2> SUFFICES ASSUME NEW n \in 0 .. Len(q), n # 0 PROVE n \in 1 .. N
    BY <1>5, <1>6 DEF Recursive, IsOf, Behind
  <2> QED
    BY <1>1
<1>8. at = [n \in 0 .. Len(q) |->
              IF n = 0 THEN <<>>
              ELSE IF <<q[n].ID, q[n].to>> = f THEN Append(at[n - 1], q[n].message)
              ELSE at[n - 1]]
  BY <1>7
<1>9. OfFlow(q, f) = at[N]
  BY DEF OfFlow
<1> HIDE DEF at
<1>10. /\ at[0] = <<>>
       /\ \A n \in 1 .. N : at[n] = IF IsOf(q[n], f) THEN Behind(at[n - 1], q[n].message)
                                                     ELSE at[n - 1]
  <2>1. 0 \in 0 .. N /\ \A n \in 1 .. N : n \in 0 .. N /\ n # 0
    BY <1>1
  <2> QED
    BY <1>8, <2>1 DEF IsOf, Behind
<1>11. at \in [0 .. N -> Seq(M)]
  <2> DEFINE S == {n \in 0 .. N : at[n] \in Seq(M)}
  <2>1. 0 \in S
    <3>1. 0 \in 0 .. N
      BY <1>1
    <3> QED
      BY <3>1, <1>4, <1>10
  <2>2. ASSUME NEW n \in 0 .. N - 1, n \in S PROVE n + 1 \in S
    <3>1. n + 1 \in 1 .. N /\ n + 1 - 1 = n /\ n + 1 \in 0 .. N
      BY <1>1
    <3>2. at[n + 1] = IF IsOf(q[n + 1], f) THEN Behind(at[n], q[n + 1].message) ELSE at[n]
      BY <1>10, <3>1
    <3>3. q[n + 1].message \in M /\ at[n] \in Seq(M)
      BY <1>1, <2>2, <3>1
    <3> HIDE DEF N
    <3>4. at[n + 1] \in Seq(M)
      BY <3>2, <3>3, BehindType
    <3> QED
      BY <3>1, <3>4
  <2>3. \A n \in 0 .. N : n \in S
    <3> HIDE DEF S, N
    <3> QED
      BY <1>1, <2>1, <2>2, Induction
  <2> QED
    BY <2>3, <1>8
<1> QED
  BY <1>9, <1>10, <1>11 DEF IsOfFlow

\* It yields messages, ...
LEMMA OfFlowType ==
    ASSUME NEW D, NEW M, \A d \in D : d.message \in M, NEW q \in Seq(D), NEW f
    PROVE  OfFlow(q, f) \in Seq(M)
<1>1. PICK g : IsOfFlow(g, q, f, M)
  BY OfFlowDef
<1>2. Len(q) \in 0 .. Len(q)
  OBVIOUS
<1> QED
  BY <1>1, <1>2 DEF IsOfFlow

\* ... and none of an empty queue.
LEMMA OfFlowNone ==
    ASSUME NEW D, NEW M, \A d \in D : d.message \in M, NEW f
    PROVE  OfFlow(<<>>, f) = <<>>
<1>1. <<>> \in Seq(D) /\ Len(<<>>) = 0
  OBVIOUS
<1>2. PICK g : IsOfFlow(g, <<>>, f, M)
  BY <1>1, OfFlowDef
<1> QED
  BY <1>1, <1>2 DEF IsOfFlow

\* A datagram more.
LEMMA OfFlowAppend ==
    ASSUME NEW D, NEW M, \A d \in D : d.message \in M, NEW q \in Seq(D), NEW f,
           NEW d \in D
    PROVE  OfFlow(Append(q, d), f) = IF IsOf(d, f) THEN Behind(OfFlow(q, f), d.message)
                                                  ELSE OfFlow(q, f)
<1> DEFINE p == Append(q, d)
           N == Len(q)
<1>1. /\ N \in Nat /\ p \in Seq(D) /\ Len(p) = N + 1 /\ p[N + 1] = d
      /\ \A n \in 1 .. N : p[n] = q[n]
  OBVIOUS
<1>2. PICK g : IsOfFlow(g, q, f, M)
  BY OfFlowDef
<1> HIDE DEF p
<1>3. PICK h : IsOfFlow(h, p, f, M)
  BY <1>1, OfFlowDef
<1> DEFINE S == {n \in 0 .. N : h[n] = g[n]}
<1> HIDE DEF N
<1>4. 0 \in S
  BY <1>1, <1>2, <1>3 DEF IsOfFlow
<1>5. ASSUME NEW n \in 0 .. N - 1, n \in S PROVE n + 1 \in S
  <2>1. n + 1 \in 1 .. N /\ n + 1 \in 1 .. N + 1 /\ n + 1 - 1 = n /\ n + 1 \in 0 .. N
    BY <1>1
  <2>2. g[n + 1] = IF IsOf(q[n + 1], f) THEN Behind(g[n], q[n + 1].message) ELSE g[n]
    BY <1>2, <2>1 DEF IsOfFlow, N
  <2>3. h[n + 1] = IF IsOf(p[n + 1], f) THEN Behind(h[n], p[n + 1].message) ELSE h[n]
    BY <1>1, <1>3, <2>1 DEF IsOfFlow
  <2>4. p[n + 1] = q[n + 1] /\ h[n] = g[n]
    BY <1>1, <1>5, <2>1
  <2> QED
    BY <2>1, <2>2, <2>3, <2>4
<1>6. \A n \in 0 .. N : n \in S
  <2> HIDE DEF S
  <2> QED
    BY <1>1, <1>4, <1>5, Induction
<1>7. N \in 0 .. N /\ N + 1 \in 1 .. N + 1 /\ N + 1 - 1 = N
  BY <1>1
<1>8. h[N] = g[N]
  BY <1>6, <1>7
<1>9. h[N + 1] = IF IsOf(d, f) THEN Behind(h[N], d.message) ELSE h[N]
  BY <1>1, <1>3, <1>7 DEF IsOfFlow
<1>10. OfFlow(p, f) = h[N + 1] /\ OfFlow(q, f) = g[N]
  BY <1>1, <1>2, <1>3 DEF IsOfFlow, N
<1> QED
  BY <1>8, <1>9, <1>10 DEF p

\* A datagram less.
LEMMA OfFlowTail ==
    ASSUME NEW D, NEW M, \A d \in D : d.message \in M, NEW q \in Seq(D), NEW f,
           q # <<>>
    PROVE  OfFlow(q, f) = IF IsOf(Head(q), f) THEN Before(One(Head(q).message), OfFlow(Tail(q), f))
                                              ELSE OfFlow(Tail(q), f)
<1> DEFINE p == Tail(q)
           N == Len(p)
           first == IF IsOf(q[1], f) THEN <<q[1].message>> ELSE <<>>
<1>1. /\ N \in Nat /\ p \in Seq(D) /\ Len(q) = N + 1 /\ Head(q) = q[1] /\ q[1] \in D
      /\ \A n \in 1 .. N : p[n] = q[n + 1] /\ q[n + 1] \in D
  OBVIOUS
<1>2. first \in Seq(M)
  BY <1>1
<1>3. PICK g : IsOfFlow(g, q, f, M)
  BY OfFlowDef
<1>4. PICK h : IsOfFlow(h, p, f, M)
  BY <1>1, OfFlowDef
<1> DEFINE S == {n \in 0 .. N : g[n + 1] = Before(first, h[n])}
<1>5. 0 \in S
  <2>1. g[1] = IF IsOf(q[1], f) THEN Behind(<<>>, q[1].message) ELSE <<>>
    <3>1. 1 \in 1 .. N + 1 /\ 1 - 1 = 0
      BY <1>1
    <3> HIDE DEF N
    <3> QED
      BY <3>1, <1>1, <1>3 DEF IsOfFlow
  <2>2. g[1] = first /\ h[0] = <<>> /\ Before(first, <<>>) = first
    BY <1>1, <1>2, <1>4, <2>1, BeforeEmpty, BehindEmpty DEF IsOfFlow
  <2>3. 0 \in 0 .. N /\ 0 + 1 = 1
    BY <1>1
  <2> HIDE DEF first, N
  <2> QED
    BY <2>2, <2>3
<1> HIDE DEF p, N, first
<1>6. ASSUME NEW n \in 0 .. N - 1, n \in S PROVE n + 1 \in S
  <2>1. /\ n + 1 \in 1 .. N /\ n + 2 \in 1 .. N + 1 /\ n + 1 - 1 = n /\ n + 2 - 1 = n + 1
        /\ n + 1 + 1 = n + 2 /\ n + 1 \in 0 .. N /\ n \in 0 .. N
    BY <1>1
  <2>2. g[n + 2] = IF IsOf(q[n + 2], f) THEN Behind(g[n + 1], q[n + 2].message)
                                       ELSE g[n + 1]
    BY <1>1, <1>3, <2>1 DEF IsOfFlow
  <2>3. h[n + 1] = IF IsOf(p[n + 1], f) THEN Behind(h[n], p[n + 1].message) ELSE h[n]
    BY <1>4, <2>1 DEF IsOfFlow, N
  <2>4. p[n + 1] = q[n + 2] /\ g[n + 1] = Before(first, h[n]) /\ q[n + 2].message \in M
    BY <1>1, <1>6, <2>1
  <2>5. h[n] \in Seq(M)
    BY <1>4, <2>1 DEF IsOfFlow, N
  <2>6. Behind(Before(first, h[n]), q[n + 2].message)
        = Before(first, Behind(h[n], q[n + 2].message))
    BY <1>2, <2>4, <2>5, BehindBefore
  <2> QED
    BY <2>1, <2>2, <2>3, <2>4, <2>6
<1>7. \A n \in 0 .. N : n \in S
  <2> HIDE DEF S
  <2> QED
    BY <1>1, <1>5, <1>6, Induction
<1>8. g[N + 1] = Before(first, h[N])
  <2>1. N \in 0 .. N
    BY <1>1
  <2> QED
    BY <1>7, <2>1
<1>9. OfFlow(q, f) = Before(first, OfFlow(p, f))
  BY <1>1, <1>3, <1>4, <1>8 DEF IsOfFlow, N
<1>10. OfFlow(p, f) \in Seq(M)
  BY <1>1, OfFlowType
<1>11. Before(<<>>, OfFlow(p, f)) = OfFlow(p, f)
  BY <1>10, BeforeEmpty
<1> QED
  BY <1>1, <1>9, <1>11 DEF first, p, One

-----------------------------------------------------------------------------
(* Sequences that are put together, the later ones in front. *)

Joined(g, a, N, M) ==
    /\ g \in [0 .. N -> Seq(M)]
    /\ g[0] = <<>>
    /\ \A n \in 1 .. N : g[n] = Before(a[n], g[n - 1])

\* What is on the next link comes before all that.
LEMMA JoinedNext ==
    ASSUME NEW N \in Nat, NEW M, NEW a, NEW g, Joined(g, a, N, M),
           NEW n \in 0 .. N - 1
    PROVE  g[n + 1] = Before(a[n + 1], g[n])
<1>1. n + 1 \in 1 .. N /\ n + 1 - 1 = n
  OBVIOUS
<1> QED
  BY <1>1 DEF Joined

\* The sequences from the j-th to the k-th are the same.
Agree(a, b, j, k) == \A n \in j .. k : b[n] = a[n]

OfMessages(a, N, M) == \A n \in 1 .. N : a[n] \in Seq(M)

\* What comes before a change is as it was.
LEMMA JoinedSame ==
    ASSUME NEW N \in Nat, NEW M, NEW a, NEW b, NEW g, NEW h,
           Joined(g, a, N, M), Joined(h, b, N, M),
           NEW k \in 0 .. N, Agree(a, b, 1, k)
    PROVE  h[k] = g[k]
<1> DEFINE S == {n \in 0 .. k : h[n] = g[n]}
<1>1. 0 \in S
  BY DEF Joined
<1>2. ASSUME NEW n \in 0 .. k - 1, n \in S PROVE n + 1 \in S
  <2>1. n + 1 \in 1 .. k /\ n \in 0 .. N - 1 /\ n + 1 \in 0 .. k
    OBVIOUS
  <2>2. g[n + 1] = Before(a[n + 1], g[n])
    BY <2>1, JoinedNext
  <2>3. h[n + 1] = Before(b[n + 1], h[n])
    BY <2>1, JoinedNext
  <2>4. b[n + 1] = a[n + 1]
    BY <2>1 DEF Agree
  <2> QED
    BY <1>2, <2>1, <2>2, <2>3, <2>4
<1>3. \A n \in 0 .. k : n \in S
  <2>1. k \in Nat
    OBVIOUS
  <2> HIDE DEF S
  <2> QED
    BY <1>1, <1>2, <2>1, Induction
<1> QED
  BY <1>3

\* What is behind a change is in front of both.
LEMMA JoinedFront ==
    ASSUME NEW N \in Nat, NEW M, NEW a, NEW b, NEW g, NEW h,
           Joined(g, a, N, M), Joined(h, b, N, M), OfMessages(a, N, M),
           NEW k \in 0 .. N, Agree(a, b, k + 1, N)
    PROVE  \E s \in Seq(M) :
              /\ g[N] = Before(s, g[k]) /\ h[N] = Before(s, h[k])
              /\ (\A n \in k + 1 .. N : a[n] = <<>>) => s = <<>>
<1> DEFINE Good(n, s) == /\ g[k + n] = Before(s, g[k]) /\ h[k + n] = Before(s, h[k])
                         /\ (\A i \in k + 1 .. N : a[i] = <<>>) => s = <<>>
           S == {n \in 0 .. N - k : \E s \in Seq(M) : Good(n, s)}
<1>0. g[k] \in Seq(M) /\ h[k] \in Seq(M)
  BY DEF Joined
<1>1. 0 \in S
  <2>1. <<>> \in Seq(M) /\ Before(<<>>, g[k]) = g[k] /\ Before(<<>>, h[k]) = h[k]
    BY <1>0, BeforeEmpty
  <2>2. 0 \in 0 .. N - k /\ k + 0 = k
    OBVIOUS
  <2>3. Good(0, <<>>)
    BY <2>1, <2>2
  <2> QED
    BY <2>1, <2>2, <2>3
<1>2. ASSUME NEW n \in 0 .. (N - k) - 1, n \in S PROVE n + 1 \in S
  <2>1. /\ k + n \in 0 .. N - 1 /\ k + n + 1 \in k + 1 .. N /\ k + n + 1 \in 1 .. N
        /\ n + 1 \in 0 .. N - k /\ k + n + 1 = k + (n + 1)
    OBVIOUS
  <2>2. PICK s \in Seq(M) : Good(n, s)
    BY <1>2
  <2> DEFINE t == Before(a[k + n + 1], s)
  <2>3. a[k + n + 1] \in Seq(M) /\ t \in Seq(M)
    BY <2>1, BeforeType DEF OfMessages
  <2>4. g[k + n + 1] = Before(a[k + n + 1], g[k + n])
    BY <2>1, JoinedNext
  <2>8. h[k + n + 1] = Before(b[k + n + 1], h[k + n])
    BY <2>1, JoinedNext
  <2>9. b[k + n + 1] = a[k + n + 1]
    BY <2>1 DEF Agree
  <2>5. /\ Before(t, g[k]) = Before(a[k + n + 1], Before(s, g[k]))
        /\ Before(t, h[k]) = Before(a[k + n + 1], Before(s, h[k]))
    BY <1>0, <2>3, BeforeBefore
  <2>6. (\A i \in k + 1 .. N : a[i] = <<>>) => t = <<>>
    <3>1. Before(<<>>, <<>>) = <<>>
      BY DEF Before
    <3> QED
      BY <2>1, <2>2, <3>1
  <2> HIDE DEF t
  <2>7. Good(n + 1, t)
    BY <2>1, <2>2, <2>4, <2>5, <2>6, <2>8, <2>9, Zenon
  <2> QED
    BY <2>1, <2>3, <2>7
<1>3. \A n \in 0 .. N - k : n \in S
  <2>1. N - k \in Nat
    OBVIOUS
  <2> HIDE DEF S
  <2> QED
    BY <1>1, <1>2, <2>1, Induction
<1>4. N - k \in 0 .. N - k /\ k + (N - k) = N
  OBVIOUS
<1>5. PICK s \in Seq(M) : Good(N - k, s)
  BY <1>3, <1>4
<1> QED
  BY <1>4, <1>5

\* A message is put behind those of the first sequence.
LEMMA JoinedAdded ==
    ASSUME NEW N \in Nat, N # 0, NEW M, NEW a, NEW b, NEW g, NEW h,
           Joined(g, a, N, M), Joined(h, b, N, M), OfMessages(a, N, M),
           OfMessages(b, N, M), NEW m \in M,
           b[1] = Behind(a[1], m), Agree(a, b, 2, N)
    PROVE  h[N] = Behind(g[N], m)
<1>1. 1 \in 0 .. N /\ 0 \in 0 .. N - 1 /\ 1 \in 1 .. N /\ 0 + 1 = 1 /\ 1 + 1 = 2
  OBVIOUS
<1>2. Agree(a, b, 1 + 1, N)
  BY <1>1
<1>3. PICK s \in Seq(M) : g[N] = Before(s, g[1]) /\ h[N] = Before(s, h[1])
  BY <1>1, <1>2, JoinedFront
<1>4. a[1] \in Seq(M) /\ b[1] \in Seq(M) /\ g[0] = <<>> /\ h[0] = <<>>
  BY <1>1 DEF Joined, OfMessages
<1>5. g[0 + 1] = Before(a[0 + 1], g[0])
  BY <1>1, JoinedNext
<1>6. h[0 + 1] = Before(b[0 + 1], h[0])
  BY <1>1, JoinedNext
<1>7. g[1] = a[1] /\ h[1] = b[1]
  BY <1>1, <1>4, <1>5, <1>6, BeforeEmpty
<1>8. Before(s, Behind(a[1], m)) = Behind(Before(s, a[1]), m)
  BY <1>4, BehindBefore
<1> QED
  BY <1>3, <1>7, <1>8

\* The first message of the next sequence after the j-th goes behind those of
\* the one after.
LEMMA JoinedMoved ==
    ASSUME NEW N \in Nat, NEW M, NEW a, NEW b, NEW g, NEW h,
           Joined(g, a, N, M), Joined(h, b, N, M), OfMessages(a, N, M),
           OfMessages(b, N, M), NEW m \in M, NEW j \in 0 .. N - 2,
           a[j + 1] = Before(One(m), b[j + 1]), b[j + 2] = Behind(a[j + 2], m),
           Agree(a, b, 1, j), Agree(a, b, j + 3, N)
    PROVE  h[N] = g[N]
<1>1. /\ j \in 0 .. N /\ j \in 0 .. N - 1 /\ j + 1 \in 0 .. N - 1 /\ j + 2 \in 0 .. N
      /\ j + 1 \in 1 .. N /\ j + 2 \in 1 .. N /\ j + 1 + 1 = j + 2 /\ j + 2 + 1 = j + 3
  OBVIOUS
<1>2. h[j] = g[j]
  BY <1>1, JoinedSame
<1>3. Agree(a, b, j + 2 + 1, N)
  BY <1>1
<1>4. PICK s \in Seq(M) : g[N] = Before(s, g[j + 2]) /\ h[N] = Before(s, h[j + 2])
  BY <1>1, <1>3, JoinedFront
<1>5. /\ a[j + 2] \in Seq(M) /\ b[j + 1] \in Seq(M) /\ One(m) \in Seq(M)
      /\ g[j] \in Seq(M)
  BY <1>1, OneType DEF Joined, OfMessages
<1>6. g[j + 1] = Before(a[j + 1], g[j])
  BY <1>1, JoinedNext
<1>7. h[j + 1] = Before(b[j + 1], g[j])
  BY <1>1, <1>2, JoinedNext
<1>8. g[j + 2] = Before(a[j + 2], g[j + 1])
  BY <1>1, JoinedNext
<1>9. h[j + 2] = Before(b[j + 2], h[j + 1])
  BY <1>1, JoinedNext
<1>10. h[j + 1] \in Seq(M)
  BY <1>1 DEF Joined
<1>11. g[j + 1] = Before(One(m), h[j + 1])
  BY <1>5, <1>6, <1>7, BeforeBefore
<1>12. b[j + 2] = Before(a[j + 2], One(m))
  BY <1>5, BehindIsBefore
<1>13. h[j + 2] = g[j + 2]
  BY <1>5, <1>8, <1>9, <1>10, <1>11, <1>12, BeforeBefore
<1> QED
  BY <1>4, <1>13

\* The first message of the next sequence after the j-th is taken away.
LEMMA JoinedTaken ==
    ASSUME NEW N \in Nat, NEW M, NEW a, NEW b, NEW g, NEW h,
           Joined(g, a, N, M), Joined(h, b, N, M), OfMessages(a, N, M),
           OfMessages(b, N, M), NEW m \in M, NEW j \in 0 .. N - 1,
           a[j + 1] = Before(One(m), b[j + 1]),
           Agree(a, b, 1, j), Agree(a, b, j + 2, N)
    PROVE  \E s, t \in Seq(M) :
              /\ g[N] = Before(s, Before(One(m), t)) /\ h[N] = Before(s, t)
              /\ (\A n \in j + 2 .. N : a[n] = <<>>) => s = <<>>
<1>1. /\ j \in 0 .. N /\ j + 1 \in 0 .. N /\ j + 1 \in 1 .. N /\ j + 1 + 1 = j + 2
  OBVIOUS
<1>2. h[j] = g[j]
  BY <1>1, JoinedSame
<1>3. Agree(a, b, j + 1 + 1, N)
  BY <1>1
<1>4. PICK s \in Seq(M) :
          /\ g[N] = Before(s, g[j + 1]) /\ h[N] = Before(s, h[j + 1])
          /\ (\A n \in j + 1 + 1 .. N : a[n] = <<>>) => s = <<>>
  BY <1>1, <1>3, JoinedFront
<1>5. b[j + 1] \in Seq(M) /\ One(m) \in Seq(M) /\ g[j] \in Seq(M)
  BY <1>1, OneType DEF Joined, OfMessages
<1>6. g[j + 1] = Before(a[j + 1], g[j])
  BY <1>1, JoinedNext
<1>7. h[j + 1] = Before(b[j + 1], g[j])
  BY <1>1, <1>2, JoinedNext
<1>8. h[j + 1] \in Seq(M)
  BY <1>1 DEF Joined
<1>9. g[j + 1] = Before(One(m), h[j + 1])
  BY <1>5, <1>6, <1>7, BeforeBefore
<1> QED
  BY <1>1, <1>4, <1>8, <1>9

-----------------------------------------------------------------------------
(* Those on their way. *)

OnLinks(f, tables, queues) == [n \in 1 .. NRouters |-> OnLink(n, f, tables, queues)]

\* InTransit puts what waits for the links of the way together.
LEMMA InTransitDef ==
    ASSUME NEW f, NEW T, NEW Q, NEW M, OfMessages(OnLinks(f, T, Q), NRouters, M)
    PROVE  \E g : /\ Joined(g, OnLinks(f, T, Q), NRouters, M)
                  /\ InTransit(f, T, Q) = g[NRouters]
<1> DEFINE N == NRouters
           a == OnLinks(f, T, Q)
           step == [x \in (1 .. N) \X Seq(M) |-> Before(a[x[1]], x[2])]
           at == CHOOSE at : at = [n \in 0 .. NRouters |->
                     IF n = 0 THEN <<>> ELSE OnLink(n, f, T, Q) \o at[n - 1]]
<1>1. N \in Nat /\ \A n \in 1 .. N : a[n] \in Seq(M)
  BY Routing_Assumption DEF OfMessages
<1>2. \A n \in 1 .. N : a[n] = OnLink(n, f, T, Q)
  BY DEF OnLinks
<1>3. step \in [(1 .. N) \X Seq(M) -> Seq(M)]
  <2> SUFFICES ASSUME NEW n \in 1 .. N, NEW s \in Seq(M)
               PROVE  Before(a[n], s) \in Seq(M)
    OBVIOUS
  <2> QED
    BY <1>1, BeforeType
<1>4. \A n \in 1 .. N : \A s \in Seq(M) : step[<<n, s>>] = Before(a[n], s)
  OBVIOUS
<1>5. <<>> \in Seq(M)
  OBVIOUS
<1> HIDE DEF step, a
<1>6. PICK g : Recursive(g, N, Seq(M), <<>>, step)
  BY <1>1, <1>3, <1>5, Recursion
<1>7. ASSUME NEW n \in 1 .. N
      PROVE  g[n] = Before(a[n], g[n - 1])
  <2>1. n - 1 \in 0 .. N /\ g[n - 1] \in Seq(M) /\ g[n] = step[<<n, g[n - 1]>>]
    BY <1>1, <1>6 DEF Recursive
  <2> QED
    BY <1>4, <2>1
<1>8. g = [n \in 0 .. NRouters |->
              IF n = 0 THEN <<>> ELSE OnLink(n, f, T, Q) \o g[n - 1]]
  <2> SUFFICES ASSUME NEW n \in 0 .. NRouters, n # 0 PROVE n \in 1 .. N
    BY <1>2, <1>6, <1>7 DEF Recursive, Before
  <2> QED
    BY <1>1
<1>9. at = [n \in 0 .. NRouters |->
              IF n = 0 THEN <<>> ELSE OnLink(n, f, T, Q) \o at[n - 1]]
  BY <1>8
<1>10. InTransit(f, T, Q) = at[N]
  BY DEF InTransit
<1> HIDE DEF at
<1>11. at[0] = <<>> /\ \A n \in 1 .. N : at[n] = Before(a[n], at[n - 1])
  <2>1. 0 \in 0 .. N /\ \A n \in 1 .. N : n \in 0 .. N /\ n # 0
    BY <1>1
  <2> QED
    BY <1>2, <1>9, <2>1 DEF Before
<1>12. at \in [0 .. N -> Seq(M)]
  <2> DEFINE S == {n \in 0 .. N : at[n] \in Seq(M)}
  <2>1. 0 \in S
    <3>1. 0 \in 0 .. N
      BY <1>1
    <3> QED
      BY <1>5, <1>11, <3>1
  <2>2. ASSUME NEW n \in 0 .. N - 1, n \in S PROVE n + 1 \in S
    <3>1. n + 1 \in 1 .. N /\ n + 1 - 1 = n /\ n + 1 \in 0 .. N
      BY <1>1
    <3>2. at[n + 1] = Before(a[n + 1], at[n])
      BY <1>11, <3>1
    <3>3. a[n + 1] \in Seq(M) /\ at[n] \in Seq(M)
      BY <1>1, <2>2, <3>1
    <3> HIDE DEF N
    <3>4. at[n + 1] \in Seq(M)
      BY <3>2, <3>3, BeforeType
    <3> QED
      BY <3>1, <3>4
  <2>3. \A n \in 0 .. N : n \in S
    <3> HIDE DEF S, N
    <3> QED
      BY <1>1, <2>1, <2>2, Induction
  <2> QED
    BY <2>3, <1>9
<1> QED
  BY <1>10, <1>11, <1>12 DEF Joined, a

-----------------------------------------------------------------------------
(* The way of a flow. *)

\* Connected routers and tables that fit together.
TablesFit(tables, edges) ==
    /\ edges \subseteq Routers \X Routers /\ Connected(edges)
    /\ \A r, s \in Routers : r # s =>
          /\ <<r, tables[r][s]>> \in edges
          /\ After(Hops(r, s, edges), r, s, tables) = s

IsFlow(f) == f \in Routers \X Routers /\ f[1] # f[2]

\* Where a packet of f is after n links, ...
At(n, f, tables) == After(n, f[1], f[2], tables)

\* ... and the link it takes next.
LinkAt(n, f, tables) == <<At(n, f, tables), tables[At(n, f, tables)][f[2]]>>

\* Link by link until it arrives, which takes less links than there are routers.
LEMMA Walk ==
    ASSUME NEW tables, NEW edges, TablesFit(tables, edges), NEW f, IsFlow(f)
    PROVE  /\ At(0, f, tables) = f[1]
           /\ \A n \in Nat : /\ At(n, f, tables) \in Routers
                             /\ At(n, f, tables) # f[2] =>
                                   /\ n < NRouters
                                   /\ LinkAt(n, f, tables) \in edges
                                   /\ LinkAt(n, f, tables)[1] = At(n, f, tables)
                                   /\ LinkAt(n, f, tables)[2] = At(n + 1, f, tables)
                             /\ At(n, f, tables) = f[2] =>
                                   \A k \in Nat : k >= n => At(k, f, tables) = f[2]
           /\ \A j, k \in Nat : /\ At(j, f, tables) = At(k, f, tables)
                                /\ At(j, f, tables) # f[2]
                                => j = k
<1> DEFINE r == f[1]
           s == f[2]
<1>1. r \in Routers /\ s \in Routers /\ r # s /\ NRouters \in Nat
  BY Routing_Assumption DEF IsFlow
<1> HIDE DEF r, s
<1>2. Leads(s, tables)
  <2> SUFFICES ASSUME NEW v \in Routers \ {s} PROVE tables[v][s] \in Routers
    BY DEF Leads
  <2>1. <<v, tables[v][s]>> \in edges /\ edges \subseteq Routers \X Routers
    BY <1>1 DEF TablesFit
  <2> QED
    BY <2>1
<1>3. After(0, r, s, tables) = r
  BY <1>1, <1>2, FirstAfter
<1>4. ASSUME NEW n \in Nat
      PROVE  /\ After(n, r, s, tables) \in Routers
             /\ After(n, r, s, tables) # s =>
                   After(n + 1, r, s, tables) = tables[After(n, r, s, tables)][s]
  BY <1>1, <1>2, NextAfter
<1>5. ASSUME NEW n \in Nat, After(n, r, s, tables) = s, NEW k \in Nat, k >= n
      PROVE  After(k, r, s, tables) = s
  <2>1. k - n \in Nat /\ n + (k - n) = k
    BY <1>5
  <2>2. After(n + (k - n), r, s, tables) = s
    BY <1>1, <1>2, <1>5, <2>1, StaysThere
  <2> QED
    BY <2>1, <2>2
<1>6. PICK h \in 0 .. NRouters : After(h, r, s, tables) = s
  <2>1. Hops(r, s, edges) \in 0 .. NRouters
    BY <1>1, HopsInRange DEF TablesFit
  <2> QED
    BY <1>1, <2>1 DEF TablesFit
<1>7. ASSUME NEW n \in Nat, After(n, r, s, tables) # s PROVE n < NRouters
  <2> SUFFICES ASSUME ~(n < NRouters) PROVE FALSE
    OBVIOUS
  <2>1. h \in Nat /\ n >= h
    BY <1>1, <1>6
  <2> QED
    BY <1>5, <1>6, <1>7, <2>1
<1>8. ASSUME NEW n \in Nat, After(n, r, s, tables) # s
      PROVE  <<After(n, r, s, tables), tables[After(n, r, s, tables)][s]>> \in edges
  BY <1>1, <1>4, <1>8 DEF TablesFit
<1>9. ASSUME NEW j \in Nat, NEW k \in Nat, j < k,
             After(j, r, s, tables) = After(k, r, s, tables)
      PROVE  After(j, r, s, tables) = s
  <2>1. h \in Nat
    BY <1>1
  <2> QED
    BY <1>1, <1>2, <1>6, <1>9, <2>1, NoCircle
<1>10. \A n : At(n, f, tables) = After(n, r, s, tables)
  BY DEF At, r, s
<1>11. \A n : LinkAt(n, f, tables)
             = <<After(n, r, s, tables), tables[After(n, r, s, tables)][s]>>
  BY DEF At, LinkAt, r, s
<1>12. ASSUME NEW j \in Nat, NEW k \in Nat, 
             After(j, r, s, tables) = After(k, r, s, tables),
             After(j, r, s, tables) # s
      PROVE  j = k
  <2>1. CASE j < k
    BY <1>9, <1>12, <2>1
  <2>2. CASE k < j
    BY <1>9, <1>12, <2>2
  <2> QED
    BY <2>1, <2>2
<1>13. At(0, f, tables) = f[1]
  BY <1>3, <1>10 DEF r
<1>14. ASSUME NEW n \in Nat, At(n, f, tables) # f[2]
       PROVE  /\ n < NRouters
              /\ LinkAt(n, f, tables) \in edges
              /\ LinkAt(n, f, tables)[1] = At(n, f, tables)
              /\ LinkAt(n, f, tables)[2] = At(n + 1, f, tables)
  <2>1. After(n, r, s, tables) # s
    BY <1>10, <1>14 DEF s
  <2>2. After(n + 1, r, s, tables) = tables[After(n, r, s, tables)][s]
    BY <1>4, <2>1
  <2> QED
    BY <1>7, <1>8, <1>10, <1>11, <2>1, <2>2
<1>15. \A n \in Nat : At(n, f, tables) \in Routers
  BY <1>4, <1>10
<1>16. ASSUME NEW n \in Nat, At(n, f, tables) = f[2], NEW k \in Nat, k >= n
       PROVE  At(k, f, tables) = f[2]
  BY <1>5, <1>10, <1>16 DEF s
<1>17. ASSUME NEW j \in Nat, NEW k \in Nat, At(j, f, tables) = At(k, f, tables),
              At(j, f, tables) # f[2]
       PROVE  j = k
  BY <1>10, <1>12, <1>17 DEF s
<1> QED
  BY <1>13, <1>14, <1>15, <1>16, <1>17

-----------------------------------------------------------------------------
(* What changes to queues do to those on their way. *)

\* Queues of datagrams D with messages M.
Queues(Q, edges, D, M) ==
    /\ Q \in [edges -> Seq(D)]
    /\ \A d \in D : d.message \in M

\* What waits for the n-th link waits where the tables send it.
LEMMA OnLinksAt ==
    ASSUME NEW f, NEW T, NEW Q, NEW n \in 1 .. NRouters
    PROVE  OnLinks(f, T, Q)[n] = IF At(n - 1, f, T) = f[2] THEN <<>>
                                 ELSE OfFlow(Q[LinkAt(n - 1, f, T)], f)
BY DEF OnLinks, OnLink, At, LinkAt

\* Every queue on the way of a flow exists and has messages.
LEMMA OnLinksType ==
    ASSUME NEW T, NEW E, TablesFit(T, E), NEW f, IsFlow(f), NEW D, NEW M, NEW Q,
           Queues(Q, E, D, M)
    PROVE  OfMessages(OnLinks(f, T, Q), NRouters, M)
<1> SUFFICES ASSUME NEW n \in 1 .. NRouters PROVE OnLinks(f, T, Q)[n] \in Seq(M)
  BY DEF OfMessages
<1>1. n - 1 \in Nat
  BY Routing_Assumption
<1>2. CASE At(n - 1, f, T) = f[2]
  <2>1. <<>> \in Seq(M)
    OBVIOUS
  <2> QED
    BY <1>2, <2>1, OnLinksAt
<1>3. CASE At(n - 1, f, T) # f[2]
  <2>1. LinkAt(n - 1, f, T) \in E
    BY <1>1, <1>3, Walk
  <2>2. Q[LinkAt(n - 1, f, T)] \in Seq(D)
    BY <2>1 DEF Queues
  <2>3. OfFlow(Q[LinkAt(n - 1, f, T)], f) \in Seq(M)
    BY <2>2, OfFlowType DEF Queues
  <2> QED
    BY <1>3, <2>3, OnLinksAt
<1> QED
  BY <1>2, <1>3

\* Of f, only the queues for the J-th links of its way are not as they were.
ChangedOnly(J, f, T, E, Q, P) ==
    /\ J \subseteq Nat /\ \A j \in J : At(j, f, T) # f[2]
    /\ \A l \in E : (\A j \in J : l # LinkAt(j, f, T))
                         => OfFlow(P[l], f) = OfFlow(Q[l], f)

\* No queue is on the way of a flow twice.
LEMMA OnlyThere ==
    ASSUME NEW T, NEW E, TablesFit(T, E), NEW f, IsFlow(f), NEW Q, NEW P,
           NEW J, ChangedOnly(J, f, T, E, Q, P), NEW n \in 1 .. NRouters,
           n - 1 \notin J
    PROVE  OnLinks(f, T, P)[n] = OnLinks(f, T, Q)[n]
<1>0. n - 1 \in Nat
  BY Routing_Assumption
<1>1. J \subseteq Nat
  BY DEF ChangedOnly
<1>2. CASE At(n - 1, f, T) = f[2]
  BY <1>2, OnLinksAt
<1>3. CASE At(n - 1, f, T) # f[2]
  <2>1. LinkAt(n - 1, f, T) \in E
    BY <1>0, <1>3, Walk
  <2>2. ASSUME NEW j \in J PROVE LinkAt(n - 1, f, T) # LinkAt(j, f, T)
    <3> SUFFICES ASSUME LinkAt(n - 1, f, T) = LinkAt(j, f, T) PROVE FALSE
      OBVIOUS
    <3>1. At(n - 1, f, T) = At(j, f, T)
      BY DEF LinkAt
    <3>2. n - 1 = j
      BY <1>1, <1>0, <1>3, <3>1, Walk
    <3> QED
      BY <3>2
  <2>3. OfFlow(P[LinkAt(n - 1, f, T)], f) = OfFlow(Q[LinkAt(n - 1, f, T)], f)
    BY <2>1, <2>2 DEF ChangedOnly
  <2> QED
    BY <1>3, <2>3, OnLinksAt
<1> QED
  BY <1>2, <1>3

\* What is on its way are messages, ...
LEMMA TransitType ==
    ASSUME NEW T, NEW E, TablesFit(T, E), NEW f, IsFlow(f), NEW D, NEW M, NEW Q,
           Queues(Q, E, D, M)
    PROVE  InTransit(f, T, Q) \in Seq(M)
<1>1. PICK g : /\ Joined(g, OnLinks(f, T, Q), NRouters, M)
               /\ InTransit(f, T, Q) = g[NRouters]
  BY OnLinksType, InTransitDef
<1>2. NRouters \in 0 .. NRouters
  BY Routing_Assumption
<1> QED
  BY <1>1, <1>2 DEF Joined

\* ... the same if no queue has other messages of the flow, ...
LEMMA TransitSame ==
    ASSUME NEW T, NEW E, TablesFit(T, E), NEW f, IsFlow(f), NEW D, NEW M,
           NEW Q, Queues(Q, E, D, M), NEW P, Queues(P, E, D, M),
           \A l \in E : OfFlow(P[l], f) = OfFlow(Q[l], f)
    PROVE  InTransit(f, T, P) = InTransit(f, T, Q)
<1> DEFINE N == NRouters
           a == OnLinks(f, T, Q)
           b == OnLinks(f, T, P)
<1>1. N \in Nat /\ N \in 0 .. N
  BY Routing_Assumption
<1>2. PICK g : Joined(g, a, N, M) /\ InTransit(f, T, Q) = g[N]
  BY OnLinksType, InTransitDef
<1>3. PICK h : Joined(h, b, N, M) /\ InTransit(f, T, P) = h[N]
  BY OnLinksType, InTransitDef
<1>4. Agree(a, b, 1, N)
  <2> SUFFICES ASSUME NEW n \in 1 .. N PROVE b[n] = a[n]
    BY DEF Agree
  <2>1. ChangedOnly({}, f, T, E, Q, P) /\ n - 1 \notin {}
    BY DEF ChangedOnly
  <2> QED
    BY <2>1, OnlyThere
<1> HIDE DEF N, a, b
<1> QED
  BY <1>1, <1>2, <1>3, <1>4, JoinedSame

\* ... one more if one is enqueued for the first link, ...
LEMMA TransitAdded ==
    ASSUME NEW T, NEW E, TablesFit(T, E), NEW f, IsFlow(f), NEW D, NEW M,
           NEW Q, Queues(Q, E, D, M), NEW P, Queues(P, E, D, M), NEW m \in M,
           OfFlow(P[LinkAt(0, f, T)], f) = Behind(OfFlow(Q[LinkAt(0, f, T)], f), m),
           \A l \in E : l # LinkAt(0, f, T) => OfFlow(P[l], f) = OfFlow(Q[l], f)
    PROVE  InTransit(f, T, P) = Behind(InTransit(f, T, Q), m)
<1> DEFINE N == NRouters
           a == OnLinks(f, T, Q)
           b == OnLinks(f, T, P)
<1>1. N \in Nat /\ N # 0 /\ 1 \in 1 .. N /\ 1 - 1 = 0
  BY Routing_Assumption
<1>2. PICK g : Joined(g, a, N, M) /\ InTransit(f, T, Q) = g[N]
  BY OnLinksType, InTransitDef
<1>3. PICK h : Joined(h, b, N, M) /\ InTransit(f, T, P) = h[N]
  BY OnLinksType, InTransitDef
<1>4. At(0, f, T) # f[2]
  BY Walk DEF IsFlow
<1>5. Agree(a, b, 2, N)
  <2> SUFFICES ASSUME NEW n \in 2 .. N PROVE b[n] = a[n]
    BY DEF Agree
  <2>1. n - 1 \notin {0} /\ n \in 1 .. N
    BY <1>1
  <2>2. ChangedOnly({0}, f, T, E, Q, P)
    BY <1>4 DEF ChangedOnly
  <2> QED
    BY <2>1, <2>2, OnlyThere
<1>6. b[1] = Behind(a[1], m)
  BY <1>1, <1>4, OnLinksAt
<1>7. OfMessages(a, N, M) /\ OfMessages(b, N, M)
  BY OnLinksType
<1> HIDE DEF N, a, b
<1> QED
  BY <1>1, <1>2, <1>3, <1>5, <1>6, <1>7, JoinedAdded

\* ... the same, in the same order, if one goes on to the next link, ...
LEMMA TransitMoved ==
    ASSUME NEW T, NEW E, TablesFit(T, E), NEW f, IsFlow(f), NEW D, NEW M,
           NEW Q, Queues(Q, E, D, M), NEW P, Queues(P, E, D, M), NEW m \in M,
           NEW i \in Nat, At(i, f, T) # f[2], At(i + 1, f, T) # f[2],
           OfFlow(Q[LinkAt(i, f, T)], f) = Before(One(m), OfFlow(P[LinkAt(i, f, T)], f)),
           OfFlow(P[LinkAt(i + 1, f, T)], f)
              = Behind(OfFlow(Q[LinkAt(i + 1, f, T)], f), m),
           \A l \in E : l # LinkAt(i, f, T) /\ l # LinkAt(i + 1, f, T)
                           => OfFlow(P[l], f) = OfFlow(Q[l], f)
    PROVE  InTransit(f, T, P) = InTransit(f, T, Q)
<1> DEFINE N == NRouters
           a == OnLinks(f, T, Q)
           b == OnLinks(f, T, P)
<1>0. i + 1 \in Nat /\ i + 1 < N
  BY Walk
<1>1. /\ N \in Nat /\ i \in 0 .. N - 2 /\ i + 1 \in 1 .. N /\ i + 2 \in 1 .. N
      /\ i + 1 - 1 = i /\ i + 2 - 1 = i + 1
  BY <1>0, Routing_Assumption
<1>2. PICK g : Joined(g, a, N, M) /\ InTransit(f, T, Q) = g[N]
  BY OnLinksType, InTransitDef
<1>3. PICK h : Joined(h, b, N, M) /\ InTransit(f, T, P) = h[N]
  BY OnLinksType, InTransitDef
<1>4. ASSUME NEW n \in 1 .. N, n # i + 1, n # i + 2 PROVE b[n] = a[n]
  <2>1. n - 1 \notin {i, i + 1}
    BY <1>1, <1>4
  <2>2. ChangedOnly({i, i + 1}, f, T, E, Q, P)
    BY DEF ChangedOnly
  <2> QED
    BY <2>1, <2>2, OnlyThere
<1>5. Agree(a, b, 1, i) /\ Agree(a, b, i + 3, N)
  <2> HIDE DEF a, b, N
  <2> QED
    BY <1>1, <1>4 DEF Agree
<1>6. a[i + 1] = Before(One(m), b[i + 1]) /\ b[i + 2] = Behind(a[i + 2], m)
  BY <1>1, OnLinksAt
<1>7. OfMessages(a, N, M) /\ OfMessages(b, N, M)
  BY OnLinksType
<1> HIDE DEF N, a, b
<1> QED
  BY <1>1, <1>2, <1>3, <1>5, <1>6, <1>7, JoinedMoved

\* ... and one less if one is taken and not enqueued again: the first of all if
\* its link was the last.
LEMMA TransitTaken ==
    ASSUME NEW T, NEW E, TablesFit(T, E), NEW f, IsFlow(f), NEW D, NEW M,
           NEW Q, Queues(Q, E, D, M), NEW P, Queues(P, E, D, M), NEW m \in M,
           NEW i \in Nat, At(i, f, T) # f[2],
           OfFlow(Q[LinkAt(i, f, T)], f) = Before(One(m), OfFlow(P[LinkAt(i, f, T)], f)),
           \A l \in E : l # LinkAt(i, f, T) => OfFlow(P[l], f) = OfFlow(Q[l], f)
    PROVE  \E s, t \in Seq(M) :
              /\ InTransit(f, T, Q) = Before(s, Before(One(m), t))
              /\ InTransit(f, T, P) = Before(s, t)
              /\ At(i + 1, f, T) = f[2] => s = <<>>
<1> DEFINE N == NRouters
           a == OnLinks(f, T, Q)
           b == OnLinks(f, T, P)
<1>0. i < N
  BY Walk
<1>1. /\ N \in Nat /\ i \in 0 .. N - 1 /\ i + 1 \in 1 .. N /\ i + 1 - 1 = i
  BY <1>0, Routing_Assumption
<1>2. PICK g : Joined(g, a, N, M) /\ InTransit(f, T, Q) = g[N]
  BY OnLinksType, InTransitDef
<1>3. PICK h : Joined(h, b, N, M) /\ InTransit(f, T, P) = h[N]
  BY OnLinksType, InTransitDef
<1>4. ASSUME NEW n \in 1 .. N, n # i + 1 PROVE b[n] = a[n]
  <2>1. n - 1 \notin {i}
    BY <1>1, <1>4
  <2>2. ChangedOnly({i}, f, T, E, Q, P)
    BY DEF ChangedOnly
  <2> QED
    BY <2>1, <2>2, OnlyThere
<1>5. Agree(a, b, 1, i) /\ Agree(a, b, i + 2, N)
  <2> HIDE DEF a, b, N
  <2> QED
    BY <1>1, <1>4 DEF Agree
<1>6. a[i + 1] = Before(One(m), b[i + 1])
  BY <1>1, OnLinksAt
<1>7. OfMessages(a, N, M) /\ OfMessages(b, N, M)
  BY OnLinksType
<1>8. At(i + 1, f, T) = f[2] => \A n \in i + 2 .. N : a[n] = <<>>
  <2> SUFFICES ASSUME At(i + 1, f, T) = f[2],
                      NEW n \in i + 2 .. N PROVE a[n] = <<>>
    OBVIOUS
  <2>1. i + 1 \in Nat /\ n - 1 \in Nat /\ n - 1 >= i + 1 /\ n \in 1 .. N
    BY <1>1
  <2>2. At(n - 1, f, T) = f[2]
    BY <2>1, Walk
  <2> QED
    BY <2>1, <2>2, OnLinksAt
<1> HIDE DEF N, a, b
<1>9. PICK s, t \in Seq(M) :
              /\ g[N] = Before(s, Before(One(m), t)) /\ h[N] = Before(s, t)
              /\ (\A n \in i + 2 .. N : a[n] = <<>>) => s = <<>>
  BY <1>1, <1>2, <1>3, <1>5, <1>6, <1>7, JoinedTaken
<1> QED
  BY <1>2, <1>3, <1>8, <1>9

-----------------------------------------------------------------------------
(* Datagrams of flows. *)

\* nodes.map lists every router once, with a port of its own and an address.
Listed ==
    \E N \in Nat :
       /\ OwnAddresses(N)
       /\ \A r \in Routers : \E k \in 1 .. N : nodes_map[k].id = r

\* What the peers send, but for the requests for 63 chunks, which do not fit.
Sent(Hash, Bytes) ==
    {m \in Sendable(Hash, Bytes) : m.data_len # 4 + 63 * SHA1_HASH_SIZE}

\* The datagram with message m of flow f.
Carrier(f, m) == Cut(Datagram(f[1], f[2], m), PACKETSIZEMAX - SPIFFY_HEADER_SIZE)

Carriers(M) == {Carrier(f, m) : f \in {g \in Flows : IsFlow(g)}, m \in M}

\* A datagram goes where it is to go, says who sent it, and is handled as it was
\* sent.
LEMMA CarrierIs ==
    ASSUME Listed, NEW Hash, NEW Bytes, NEW m \in Sent(Hash, Bytes),
           NEW f, IsFlow(f)
    PROVE  LET d == Carrier(f, m)
           IN  /\ d.ID = f[1] /\ d.to = f[2] /\ d.message = m
               /\ Destination(d) = f[2] /\ find_peer(d.lSrcPort) = f[1]
               /\ Handled(d) = <<m>>
               /\ \A g \in Routers \X Routers : IsOf(d, g) <=> g = f
<1> DEFINE e == Datagram(f[1], f[2], m)
           d == Carrier(f, m)
<1>1. /\ d.ID = f[1] /\ d.to = f[2] /\ d.message = m
      /\ d.lDestAddr = e.lDestAddr /\ d.lDestPort = e.lDestPort
      /\ d.lSrcPort = e.lSrcPort
  BY DEF Carrier, Cut, Datagram
<1>2. Handled(d) = <<m>>
  BY MessagesArrive DEF Sent, Carrier
<1>3. Destination(e) = f[2] /\ find_peer(e.lSrcPort) = f[1]
  <2>1. PICK N \in Nat :
       /\ OwnAddresses(N)
       /\ \A r \in Routers : \E k \in 1 .. N : nodes_map[k].id = r
    BY DEF Listed
  <2>2. PICK i \in 1 .. N : nodes_map[i].id = f[1]
    BY <2>1 DEF IsFlow
  <2>3. PICK j \in 1 .. N : nodes_map[j].id = f[2]
    BY <2>1 DEF IsFlow
  <2>4. LET c == Datagram(nodes_map[i].id, nodes_map[j].id, m)
        IN  /\ Destination(c) = nodes_map[j].id
            /\ find_peer(c.lSrcPort) = nodes_map[i].id
    BY <2>1, Addressed
  <2> QED
    BY <2>2, <2>3, <2>4
<1>4. Destination(d) = Destination(e)
  BY <1>1 DEF Destination
<1>5. ASSUME NEW g \in Routers \X Routers PROVE IsOf(d, g) <=> g = f
  BY <1>1 DEF IsOf, IsFlow
<1> QED
  BY <1>1, <1>2, <1>3, <1>4, <1>5

\* Link l is on the way of the flow of datagram d, ...
Belongs(d, l, T, F) ==
    \A f \in F : IsOf(d, f) => \E n \in Nat : l = LinkAt(n, f, T) /\ At(n, f, T) # f[2]

\* ... as it is for all that wait.
OnItsWay(Q, T, E, F) == \A l \in E : \A i \in DOMAIN Q[l] : Belongs(Q[l][i], l, T, F)

\* What a queue carries of the flows after a change.
LEMMA FlowsOfAppend ==
    ASSUME NEW D, NEW M, \A d \in D : d.message \in M, NEW E,
           NEW Q \in [E -> Seq(D)],
           NEW l \in E, NEW d \in D, NEW T, NEW F, OnItsWay(Q, T, E, F),
           Belongs(d, l, T, F)
    PROVE  LET P == [Q EXCEPT ![l] = Append(@, d)]
           IN  /\ P \in [E -> Seq(D)]
               /\ OnItsWay(P, T, E, F)
               /\ \A k \in E : k # l => P[k] = Q[k]
               /\ \A f : OfFlow(P[l], f) = IF IsOf(d, f) THEN Behind(OfFlow(Q[l], f), d.message)
                                                         ELSE OfFlow(Q[l], f)
<1> DEFINE P == [Q EXCEPT ![l] = Append(@, d)]
<1>0. /\ P \in [E -> Seq(D)] /\ P[l] = Append(Q[l], d) /\ Q[l] \in Seq(D)
      /\ \A k \in E : k # l => P[k] = Q[k]
  OBVIOUS
<1>1. /\ \A i \in DOMAIN Append(Q[l], d) : i \in DOMAIN Q[l] \/ Append(Q[l], d)[i] = d
      /\ \A i \in DOMAIN Q[l] : Append(Q[l], d)[i] = Q[l][i]
  BY <1>0
<1> HIDE DEF P
<1>2. ASSUME NEW f
      PROVE  OfFlow(P[l], f) = IF IsOf(d, f) THEN Behind(OfFlow(Q[l], f), d.message)
                                             ELSE OfFlow(Q[l], f)
  <2>1. OfFlow(Append(Q[l], d), f) = IF IsOf(d, f) THEN Behind(OfFlow(Q[l], f), d.message)
                                                   ELSE OfFlow(Q[l], f)
    BY <1>0, OfFlowAppend
  <2> QED
    BY <1>0, <2>1
<1>3. OnItsWay(P, T, E, F)
  <2> SUFFICES ASSUME NEW k \in E,
                      NEW i \in DOMAIN P[k] PROVE Belongs(P[k][i], k, T, F)
    BY DEF OnItsWay
  <2>1. CASE k # l
    BY <1>0, <2>1 DEF OnItsWay
  <2>2. CASE k = l /\ i \in DOMAIN Q[l]
    <3>1. P[k][i] = Q[l][i]
      BY <1>1, <1>0, <2>2
    <3> QED
      BY <2>2, <3>1 DEF OnItsWay
  <2>3. CASE k = l /\ i \notin DOMAIN Q[l]
    <3>1. P[k][i] = d
      BY <1>1, <1>0, <2>3
    <3> QED
      BY <2>3, <3>1
  <2> QED
    BY <2>1, <2>2, <2>3
<1> QED
  BY <1>0, <1>2, <1>3 DEF P

\* The same if the head is taken.
LEMMA FlowsOfTail ==
    ASSUME NEW D, NEW M, \A d \in D : d.message \in M, NEW E,
           NEW Q \in [E -> Seq(D)],
           NEW l \in E, Q[l] # <<>>, NEW T, NEW F, OnItsWay(Q, T, E, F)
    PROVE  LET P == [Q EXCEPT ![l] = Tail(@)]
               d == Head(Q[l])
           IN  /\ P \in [E -> Seq(D)] /\ d \in D
               /\ OnItsWay(P, T, E, F)
               /\ Belongs(d, l, T, F)
               /\ \A k \in E : k # l => P[k] = Q[k]
               /\ \A f : OfFlow(Q[l], f) = IF IsOf(d, f) THEN Before(One(d.message), OfFlow(P[l], f))
                                                         ELSE OfFlow(P[l], f)
<1> DEFINE P == [Q EXCEPT ![l] = Tail(@)]
           d == Head(Q[l])
<1>0. /\ P \in [E -> Seq(D)] /\ P[l] = Tail(Q[l]) /\ Q[l] \in Seq(D)
      /\ d \in D /\ d = Q[l][1] /\ 1 \in DOMAIN Q[l]
      /\ \A k \in E : k # l => P[k] = Q[k]
  OBVIOUS
<1>1. \A i \in DOMAIN Tail(Q[l]) : i + 1 \in DOMAIN Q[l] /\ Tail(Q[l])[i] = Q[l][i + 1]
  BY <1>0
<1>2. ASSUME NEW f
      PROVE  OfFlow(Q[l], f) = IF IsOf(d, f) THEN Before(One(d.message), OfFlow(Tail(Q[l]), f))
                                             ELSE OfFlow(Tail(Q[l]), f)
  BY <1>0, OfFlowTail
<1> HIDE DEF P
<1>3. OnItsWay(P, T, E, F)
  <2> SUFFICES ASSUME NEW k \in E,
                      NEW i \in DOMAIN P[k] PROVE Belongs(P[k][i], k, T, F)
    BY DEF OnItsWay
  <2>1. CASE k # l
    BY <1>0, <2>1 DEF OnItsWay
  <2>2. CASE k = l
    <3>1. i + 1 \in DOMAIN Q[l] /\ P[k][i] = Q[l][i + 1]
      BY <1>1, <1>0, <2>2
    <3> QED
      BY <2>2, <3>1 DEF OnItsWay
  <2> QED
    BY <2>1, <2>2
<1>4. Belongs(d, l, T, F)
  BY <1>0 DEF OnItsWay
<1> QED
  BY <1>0, <1>2, <1>3, <1>4 DEF P

-----------------------------------------------------------------------------
(* What happens to those on their way. *)

\* What the flows send.
Usable(Hash, Bytes) ==
    /\ Listed
    /\ \A f \in Flows : IsFlow(f) /\ Messages[f] \in Seq(Sent(Hash, Bytes))

\* Queues that hold datagrams of the flows, each on its way.
Filled(Q, T, E, M) ==
    Q \in [E -> Seq(Carriers(M))] /\ OnItsWay(Q, T, E, Flows)

\* A datagram that may wait is of some flow, with some message, ...
LEMMA CarrierOf ==
    ASSUME NEW Hash, NEW Bytes, Usable(Hash, Bytes),
           NEW d \in Carriers(Sent(Hash, Bytes))
    PROVE  \E f \in Flows : \E m \in Sent(Hash, Bytes) : IsFlow(f) /\ d = Carrier(f, m)
BY DEF Carriers

\* ... which is one that was sent.
LEMMA CarriersHold ==
    ASSUME NEW Hash, NEW Bytes, Usable(Hash, Bytes)
    PROVE  \A d \in Carriers(Sent(Hash, Bytes)) : d.message \in Sent(Hash, Bytes)
<1> SUFFICES ASSUME NEW d \in Carriers(Sent(Hash, Bytes))
             PROVE  d.message \in Sent(Hash, Bytes)
  OBVIOUS
<1>1. PICK f \in Flows, m \in Sent(Hash, Bytes) : IsFlow(f) /\ d = Carrier(f, m)
  BY CarrierOf
<1>2. d.message = m
  BY <1>1, CarrierIs DEF Usable
<1> QED
  BY <1>2

\* Such queues have messages.
LEMMA FilledQueues ==
    ASSUME NEW Hash, NEW Bytes, Usable(Hash, Bytes), NEW T, NEW E, NEW Q,
           Filled(Q, T, E, Sent(Hash, Bytes))
    PROVE  Queues(Q, E, Carriers(Sent(Hash, Bytes)), Sent(Hash, Bytes))
BY CarriersHold DEF Filled, Queues

\* A datagram belongs to one flow.
LEMMA OwnFlow ==
    ASSUME NEW Hash, NEW Bytes, Usable(Hash, Bytes), NEW f \in Flows,
           NEW m \in Sent(Hash, Bytes), NEW g \in Flows
    PROVE  /\ IsOf(Carrier(f, m), g) <=> g = f
           /\ Carrier(f, m).message = m /\ Carrier(f, m) \in Carriers(Sent(Hash, Bytes))
<1>1. IsFlow(f) /\ IsFlow(g) /\ g \in Routers \X Routers /\ Listed
  BY DEF Usable, IsFlow
<1>2. (IsOf(Carrier(f, m), g) <=> g = f) /\ Carrier(f, m).message = m
  BY <1>1, CarrierIs
<1> QED
  BY <1>1, <1>2 DEF Carriers

\* A datagram more or less in the queue of link l.
Longer(Q, l, d) == [Q EXCEPT ![l] = Append(@, d)]
Shorter(Q, l) == [Q EXCEPT ![l] = Tail(@)]

\* A datagram that is enqueued by the router of its sender is the last of its flow.
LEMMA Entering ==
    ASSUME NEW Hash, NEW Bytes, Usable(Hash, Bytes), NEW T, NEW E,
           TablesFit(T, E),
           NEW Q, Filled(Q, T, E, Sent(Hash, Bytes)), NEW f \in Flows,
           NEW m \in Sent(Hash, Bytes)
    PROVE  LET P == Longer(Q, LinkAt(0, f, T), Carrier(f, m))
           IN  /\ Filled(P, T, E, Sent(Hash, Bytes))
               /\ InTransit(f, T, P) = Behind(InTransit(f, T, Q), m)
               /\ \A g \in Flows : g # f => InTransit(g, T, P) = InTransit(g, T, Q)
<1> DEFINE M == Sent(Hash, Bytes)
           D == Carriers(M)
           l == LinkAt(0, f, T)
           d == Carrier(f, m)
           P == Longer(Q, l, d)
<1>1. /\ \A g \in Flows : IsOf(d, g) <=> g = f
      /\ d.message = m /\ d \in D
  BY OwnFlow
<1>2. /\ \A c \in D : c.message \in M
      /\ \A g \in Flows : IsFlow(g)
      /\ Queues(Q, E, D, M) /\ Q \in [E -> Seq(D)] /\ OnItsWay(Q, T, E, Flows)
  BY CarriersHold, FilledQueues DEF Usable, Filled
<1>3. At(0, f, T) # f[2] /\ l \in E
  <2>1. IsFlow(f) /\ 0 \in Nat
    BY <1>2
  <2>2. At(0, f, T) = f[1] /\ f[1] # f[2]
    BY <2>1, Walk DEF IsFlow
  <2> QED
    BY <2>1, <2>2, Walk
<1>4. Belongs(d, l, T, Flows)
  BY <1>1, <1>3 DEF Belongs
<1> HIDE DEF M, D, l, d, P
<1>5. /\ P \in [E -> Seq(D)]
      /\ OnItsWay(P, T, E, Flows)
      /\ \A k \in E : k # l => P[k] = Q[k]
      /\ \A g : OfFlow(P[l], g) = IF IsOf(d, g) THEN Behind(OfFlow(Q[l], g), d.message)
                                                ELSE OfFlow(Q[l], g)
  BY <1>1, <1>2, <1>3, <1>4, FlowsOfAppend DEF P, Longer
<1>6. Queues(P, E, D, M)
  BY <1>2, <1>5 DEF Queues
<1>7. InTransit(f, T, P) = Behind(InTransit(f, T, Q), m)
  <2>1. OfFlow(P[l], f) = Behind(OfFlow(Q[l], f), m)
    BY <1>1, <1>5
  <2>2. \A k \in E : k # l => OfFlow(P[k], f) = OfFlow(Q[k], f)
    BY <1>5
  <2>3. IsFlow(f) /\ m \in M
    BY <1>2 DEF M
  <2> QED
    BY <1>2, <1>6, <2>1, <2>2, <2>3, TransitAdded DEF l
<1>8. ASSUME NEW g \in Flows,
             g # f PROVE InTransit(g, T, P) = InTransit(g, T, Q)
  <2>1. \A k \in E : OfFlow(P[k], g) = OfFlow(Q[k], g)
    BY <1>1, <1>5, <1>8
  <2>2. IsFlow(g)
    BY <1>2
  <2> QED
    BY <1>2, <1>6, <2>1, <2>2, TransitSame
<1>9. Filled(P, T, E, M)
  BY <1>5 DEF Filled, D
<1> QED
  BY <1>7, <1>8, <1>9 DEF P, l, d, M

\* P are the queues Q without the head of link l, the i-th on the way of flow f.
Left(f, m, i, l, T, E, Q, P) ==
    /\ Head(Q[l]) = Carrier(f, m)
    /\ l = LinkAt(i, f, T) /\ At(i, f, T) # f[2]
    /\ OfFlow(Q[l], f) = Before(One(m), OfFlow(P[l], f))
    /\ \A g \in Flows : g # f => OfFlow(P[l], g) = OfFlow(Q[l], g)
    /\ \A k \in E : k # l => P[k] = Q[k]

\* The head of a queue is taken away.
LEMMA Leaving ==
    ASSUME NEW Hash, NEW Bytes, Usable(Hash, Bytes), NEW T, NEW E,
           TablesFit(T, E),
           NEW Q, Filled(Q, T, E, Sent(Hash, Bytes)), NEW l \in E, Q[l] # <<>>
    PROVE  LET P == Shorter(Q, l)
           IN  /\ Filled(P, T, E, Sent(Hash, Bytes))
               /\ \E f \in Flows : \E m \in Sent(Hash, Bytes) : \E i \in Nat :
                     Left(f, m, i, l, T, E, Q, P)
<1> DEFINE M == Sent(Hash, Bytes)
           D == Carriers(M)
           d == Head(Q[l])
           P == Shorter(Q, l)
<1>1. /\ \A c \in D : c.message \in M
      /\ Q \in [E -> Seq(D)] /\ OnItsWay(Q, T, E, Flows)
  BY CarriersHold DEF Filled
<1> HIDE DEF D, M
<1>2. /\ P \in [E -> Seq(D)] /\ d \in D
      /\ OnItsWay(P, T, E, Flows)
      /\ Belongs(d, l, T, Flows)
      /\ \A k \in E : k # l => P[k] = Q[k]
      /\ \A f : OfFlow(Q[l], f) = IF IsOf(d, f) THEN Before(One(d.message), OfFlow(P[l], f))
                                                ELSE OfFlow(P[l], f)
  BY <1>1, FlowsOfTail DEF Shorter
<1> HIDE DEF d, P
<1>3. PICK f \in Flows, m \in M : IsFlow(f) /\ d = Carrier(f, m)
  BY <1>2, CarrierOf DEF D, M
<1>4. (\A g \in Flows : IsOf(d, g) <=> g = f) /\ d.message = m
  BY <1>3, OwnFlow DEF M
<1>5. PICK i \in Nat : l = LinkAt(i, f, T) /\ At(i, f, T) # f[2]
  BY <1>2, <1>4 DEF Belongs
<1>6. /\ OfFlow(Q[l], f) = Before(One(m), OfFlow(P[l], f))
      /\ \A g \in Flows : g # f => OfFlow(P[l], g) = OfFlow(Q[l], g)
  BY <1>2, <1>4
<1>7. Filled(P, T, E, M)
  BY <1>2 DEF Filled, D
<1>8. Left(f, m, i, l, T, E, Q, P)
  BY <1>2, <1>3, <1>5, <1>6 DEF Left, d
<1> QED
  BY <1>7, <1>8 DEF M, P

\* Of f, its first datagram on that link is gone; it had arrived if there is no
\* further link, and then it was the first of all.
LEMMA Dropping ==
    ASSUME NEW Hash, NEW Bytes, Usable(Hash, Bytes), NEW T, NEW E,
           TablesFit(T, E),
           NEW Q, Filled(Q, T, E, Sent(Hash, Bytes)),
           NEW P, Filled(P, T, E, Sent(Hash, Bytes)), NEW l \in E,
           NEW f \in Flows,
           NEW m \in Sent(Hash, Bytes), NEW i \in Nat,
           Left(f, m, i, l, T, E, Q, P)
    PROVE  /\ \E s, t \in Seq(Sent(Hash, Bytes)) :
                 /\ InTransit(f, T, Q) = Before(s, Before(One(m), t))
                 /\ InTransit(f, T, P) = Before(s, t)
                 /\ At(i + 1, f, T) = f[2] => s = <<>>
           /\ \A g \in Flows : g # f => InTransit(g, T, P) = InTransit(g, T, Q)
<1> DEFINE M == Sent(Hash, Bytes)
           D == Carriers(M)
<1>1. Queues(Q, E, D, M) /\ Queues(P, E, D, M) /\ \A g \in Flows : IsFlow(g)
  BY FilledQueues DEF Usable
<1>2. \E s, t \in Seq(M) :
                 /\ InTransit(f, T, Q) = Before(s, Before(One(m), t))
                 /\ InTransit(f, T, P) = Before(s, t)
                 /\ At(i + 1, f, T) = f[2] => s = <<>>
  <2>1. At(i, f, T) # f[2]
    BY DEF Left
  <2>2. OfFlow(Q[LinkAt(i, f, T)], f) = Before(One(m), OfFlow(P[LinkAt(i, f, T)], f))
    BY DEF Left
  <2>3. \A k \in E : k # LinkAt(i, f, T) => OfFlow(P[k], f) = OfFlow(Q[k], f)
    BY DEF Left
  <2>4. IsFlow(f) /\ m \in M
    BY <1>1
  <2> HIDE DEF M, D
  <2> QED
    BY <1>1, <2>1, <2>2, <2>3, <2>4, TransitTaken
<1>3. ASSUME NEW g \in Flows,
             g # f PROVE InTransit(g, T, P) = InTransit(g, T, Q)
  <2>1. \A k \in E : OfFlow(P[k], g) = OfFlow(Q[k], g)
    BY <1>3 DEF Left
  <2>2. IsFlow(g)
    BY <1>1
  <2> HIDE DEF M, D
  <2> QED
    BY <1>1, <2>1, <2>2, TransitSame
<1> QED
  BY <1>2, <1>3

\* A datagram that waits for the next link is on its way as before.
LEMMA Passing ==
    ASSUME NEW Hash, NEW Bytes, Usable(Hash, Bytes), NEW T, NEW E,
           TablesFit(T, E),
           NEW Q, Filled(Q, T, E, Sent(Hash, Bytes)),
           NEW P, Filled(P, T, E, Sent(Hash, Bytes)), NEW l \in E,
           NEW f \in Flows,
           NEW m \in Sent(Hash, Bytes), NEW i \in Nat,
           Left(f, m, i, l, T, E, Q, P),
           At(i + 1, f, T) # f[2]
    PROVE  LET R == Longer(P, LinkAt(i + 1, f, T), Carrier(f, m))
           IN  /\ Filled(R, T, E, Sent(Hash, Bytes))
               /\ \A g \in Flows : InTransit(g, T, R) = InTransit(g, T, Q)
<1> DEFINE M == Sent(Hash, Bytes)
           D == Carriers(M)
           n == LinkAt(i + 1, f, T)
           d == Carrier(f, m)
           R == Longer(P, n, d)
<1>1. /\ \A g \in Flows : IsOf(d, g) <=> g = f
      /\ d.message = m /\ d \in D
  BY OwnFlow
<1>2. /\ \A c \in D : c.message \in M
      /\ \A g \in Flows : IsFlow(g)
      /\ Queues(Q, E, D, M) /\ P \in [E -> Seq(D)] /\ OnItsWay(P, T, E, Flows)
  BY CarriersHold, FilledQueues DEF Usable, Filled
<1>3. /\ l = LinkAt(i, f, T) /\ At(i, f, T) # f[2] /\ i + 1 \in Nat /\ n \in E /\ n # l
  <2>1. l = LinkAt(i, f, T) /\ At(i, f, T) # f[2] /\ i + 1 \in Nat /\ IsFlow(f)
    BY <1>2 DEF Left
  <2>2. n \in E /\ n[1] = At(i + 1, f, T) /\ l[1] = At(i, f, T)
    BY <2>1, Walk
  <2>3. At(i + 1, f, T) # At(i, f, T)
    <3>1. At(i, f, T) = At(i + 1, f, T) => i = i + 1
      BY <2>1, Walk
    <3> QED
      BY <2>1, <3>1
  <2> QED
    BY <2>1, <2>2, <2>3
<1>4. Belongs(d, n, T, Flows)
  BY <1>1, <1>3 DEF Belongs
<1> HIDE DEF M, D, n, d, R
<1>5. /\ R \in [E -> Seq(D)]
      /\ OnItsWay(R, T, E, Flows)
      /\ \A k \in E : k # n => R[k] = P[k]
      /\ \A g : OfFlow(R[n], g) = IF IsOf(d, g) THEN Behind(OfFlow(P[n], g), d.message)
                                                ELSE OfFlow(P[n], g)
  BY <1>1, <1>2, <1>3, <1>4, FlowsOfAppend DEF R, Longer
<1>6. Queues(R, E, D, M)
  BY <1>2, <1>5 DEF Queues
<1>7. InTransit(f, T, R) = InTransit(f, T, Q)
  <2>1. OfFlow(R[n], f) = Behind(OfFlow(Q[n], f), m)
    BY <1>1, <1>3, <1>5 DEF Left
  <2>2. OfFlow(Q[l], f) = Before(One(m), OfFlow(R[l], f))
    BY <1>3, <1>5 DEF Left
  <2>3. \A k \in E : k # l /\ k # n => OfFlow(R[k], f) = OfFlow(Q[k], f)
    BY <1>5 DEF Left
  <2>4. IsFlow(f) /\ m \in M
    BY <1>2 DEF M
  <2> QED
    BY <1>2, <1>3, <1>6, <2>1, <2>2, <2>3, <2>4, TransitMoved DEF n
<1>8. ASSUME NEW g \in Flows,
             g # f PROVE InTransit(g, T, R) = InTransit(g, T, Q)
  <2>1. ASSUME NEW k \in E PROVE OfFlow(R[k], g) = OfFlow(Q[k], g)
    <3>1. OfFlow(R[k], g) = OfFlow(P[k], g)
      BY <1>1, <1>5, <1>8
    <3>2. OfFlow(P[k], g) = OfFlow(Q[k], g)
      BY <1>8 DEF Left
    <3> QED
      BY <3>1, <3>2
  <2>2. IsFlow(g)
    BY <1>2
  <2> QED
    BY <1>2, <1>6, <2>1, <2>2, TransitSame
<1>9. Filled(R, T, E, M)
  BY <1>5 DEF Filled, D
<1> QED
  BY <1>7, <1>8, <1>9 DEF R, n, d, M

-----------------------------------------------------------------------------
(* The steps of the network. *)

\* The inductive invariant.
Carried(Hash, Bytes) ==
    /\ TablesFit(routingTable, links)
    /\ Filled(queue, routingTable, links, Sent(Hash, Bytes))
    /\ sent \in [Flows -> Nat]
    /\ arrived \in [Flows -> Seq(Sent(Hash, Bytes))]

\* The datagram of a node is sent, and lost at once if the queue is full.
LEMMA InsertSends ==
    ASSUME NEW Hash, NEW Bytes, Usable(Hash, Bytes), Carried(Hash, Bytes),
           NEW f \in Flows, Insert(f)
    PROVE  Carried(Hash, Bytes)' /\ Ends!Send(f)
<1> DEFINE M == Sent(Hash, Bytes)
           m == Messages[f][sent[f] + 1]
           d == Carrier(f, m)
           T == routingTable
           l == LinkAt(0, f, T)
           P == Longer(queue, l, d)
           transit == [g \in Flows |-> InTransit(g, T, queue)]
<1>1. /\ IsFlow(f) /\ Messages[f] \in Seq(M) /\ Listed
      /\ TablesFit(T, links) /\ Filled(queue, T, links, M)
      /\ sent \in [Flows -> Nat] /\ arrived \in [Flows -> Seq(M)]
  BY DEF Usable, Carried
<1>2. /\ sent[f] < Len(Messages[f]) /\ sent' = [sent EXCEPT ![f] = @ + 1]
      /\ UNCHANGED <<links, routingTable>>
  BY DEF Insert
<1>3. m \in M
  BY <1>1, <1>2
<1>4. d.ID = f[1] /\ Destination(d) = f[2] /\ f[1] # f[2]
  BY <1>1, <1>3, CarrierIs DEF IsFlow
<1>5. Recv(f[1], d, queue)
  <2>1. Recv(Datagram(f[1], f[2], m).ID, d, queue)
    BY DEF Insert, Carrier
  <2>2. Datagram(f[1], f[2], m).ID = f[1]
    BY DEF Datagram
  <2> QED
    BY <2>1, <2>2
<1>6. At(0, f, T) = f[1] /\ l = <<f[1], T[f[1]][f[2]]>> /\ l \in links
  <2>1. At(0, f, T) = f[1] /\ 0 \in Nat
    BY <1>1, Walk
  <2> QED
    BY <1>1, <1>4, <2>1, Walk DEF LinkAt
<1> HIDE DEF M, m, d, l
<1>7. UNCHANGED arrived /\ queue' = [queue EXCEPT ![l] = EnQ(@, d)]
  BY <1>4, <1>5, <1>6 DEF Recv
<1>8. queue \in [links -> Seq(Carriers(M))]
  BY <1>1 DEF Filled
<1>9. queue' = queue \/ queue' = P
  BY <1>6, <1>7, <1>8 DEF EnQ, Longer
<1>10. sent' \in [Flows -> Nat]
  BY <1>1, <1>2
<1>11. CASE queue' = queue
  <2>1. UNCHANGED [g \in Flows |-> InTransit(g, routingTable, queue)]
    BY <1>2, <1>11
  <2>2. Carried(Hash, Bytes)'
    BY <1>1, <1>2, <1>7, <1>10, <1>11 DEF Carried, M
  <2> QED
    BY <1>2, <1>7, <2>1, <2>2 DEF Ends!Send
<1>12. CASE queue' = P
  <2>1. /\ Filled(P, T, links, M)
        /\ InTransit(f, T, P) = Behind(InTransit(f, T, queue), m)
        /\ \A g \in Flows : g # f => InTransit(g, T, P) = InTransit(g, T, queue)
    BY <1>1, <1>3, Entering DEF l, d, M
  <2>2. Carried(Hash, Bytes)'
    BY <1>1, <1>2, <1>7, <1>10, <1>12, <2>1 DEF Carried, M
  <2>3. \A g : InTransit(g, routingTable, queue)' = InTransit(g, T, P)
    BY <1>2, <1>12
  <2> HIDE DEF P, T
  <2>4. [g \in Flows |-> InTransit(g, routingTable, queue)]'
        = [transit EXCEPT ![f] = Append(@, m)]
    BY <2>1, <2>3 DEF Behind, T
  <2> QED
    BY <1>2, <1>7, <2>2, <2>4 DEF Ends!Send, m, T
<1> QED
  BY <1>9, <1>11, <1>12

\* What is on its way, as Channel has it.
transit == [f \in Flows |-> InTransit(f, routingTable, queue)]

\* The head of a queue arrives, or is lost, or waits for the next link, which
\* nobody sees.
LEMMA RunCarries ==
    ASSUME NEW Hash, NEW Bytes, Usable(Hash, Bytes), Carried(Hash, Bytes),
           NEW l \in links, Run(l)
    PROVE  /\ Carried(Hash, Bytes)'
           /\ \/ \E f \in Flows : Ends!Lose(f) \/ Ends!Arrive(f)
              \/ UNCHANGED <<transit, sent, arrived>>
<1> DEFINE M == Sent(Hash, Bytes)
           T == routingTable
           d == Head(queue[l])
           P == Shorter(queue, l)
<1>1. /\ \A f \in Flows : IsFlow(f) /\ f = <<f[1], f[2]>>
      /\ Listed
      /\ TablesFit(T, links) /\ Filled(queue, T, links, M)
      /\ sent \in [Flows -> Nat] /\ arrived \in [Flows -> Seq(M)]
  BY DEF Usable, Carried, IsFlow
<1>2. /\ queue[l] # <<>> /\ UNCHANGED <<links, routingTable, sent>>
      /\ Recv(l[2], d, P)
  BY DEF Run, Shorter
<1>3. /\ Filled(P, T, links, M)
      /\ \E f \in Flows : \E m \in M : \E i \in Nat :
            Left(f, m, i, l, T, links, queue, P)
  BY <1>1, <1>2, Leaving
<1>4. PICK f \in Flows, m \in M, i \in Nat : Left(f, m, i, l, T, links, queue, P)
  BY <1>3
<1> DEFINE n == LinkAt(i + 1, f, T)
           R == Longer(P, n, d)
<1> HIDE DEF M, d, P
<1>5. /\ d = Carrier(f, m) /\ l = LinkAt(i, f, T) /\ At(i, f, T) # f[2]
  BY <1>4 DEF Left, d
<1>6. Destination(d) = f[2] /\ find_peer(d.lSrcPort) = f[1] /\ Handled(d) = <<m>>
  BY <1>1, <1>5, CarrierIs DEF M
<1>7. l[2] = At(i + 1, f, T) /\ i + 1 \in Nat
  BY <1>1, <1>5, Walk
<1>8. /\ \E s, t \in Seq(M) :
            /\ InTransit(f, T, queue) = Before(s, Before(One(m), t))
            /\ InTransit(f, T, P) = Before(s, t)
            /\ At(i + 1, f, T) = f[2] => s = <<>>
      /\ \A g \in Flows : g # f => InTransit(g, T, P) = InTransit(g, T, queue)
  BY <1>1, <1>3, <1>4, Dropping DEF M
<1>9. PICK s, t \in Seq(M) :
            /\ InTransit(f, T, queue) = Before(s, Before(One(m), t))
            /\ InTransit(f, T, P) = Before(s, t)
            /\ At(i + 1, f, T) = f[2] => s = <<>>
  BY <1>8
<1>10. ASSUME queue' = P
       PROVE  transit' = [transit EXCEPT ![f] = Before(s, t)]
  <2>1. transit' = [g \in Flows |-> InTransit(g, T, P)]
    BY <1>2, <1>10 DEF transit
  <2> HIDE DEF T
  <2> QED
    BY <1>8, <1>9, <2>1 DEF transit, T
<1>11. CASE Destination(d) = l[2]
  <2>1. /\ arrived' = [arrived EXCEPT ![f] = @ \o <<m>>] /\ queue' = P
    BY <1>1, <1>2, <1>5, <1>6, <1>7, <1>11 DEF Recv
  <2>2. /\ InTransit(f, T, queue) = Before(One(m), t) /\ Before(s, t) = t
    <3>1. s = <<>> /\ Before(One(m), t) \in Seq(M)
      BY <1>6, <1>7, <1>9, <1>11, OneType, BeforeType
    <3> QED
      BY <1>9, <3>1, BeforeEmpty
  <2>3. transit[f] # <<>> /\ Head(transit[f]) = m /\ Tail(transit[f]) = t
    <3>1. transit[f] = <<m>> \o t
      BY <2>2 DEF transit, Before, One
    <3> QED
      BY <3>1
  <2>4. arrived[f] \o <<m>> = Append(arrived[f], m) /\ arrived[f] \o <<m>> \in Seq(M)
    BY <1>1
  <2>5. Ends!Arrive(f)
    <3>1. transit' = [transit EXCEPT ![f] = Tail(@)]
      BY <1>10, <2>1, <2>2, <2>3
    <3>2. arrived' = [arrived EXCEPT ![f] = Append(@, Head(transit[f]))]
      BY <1>1, <2>1, <2>3, <2>4
    <3> QED
      BY <1>2, <2>3, <3>1, <3>2 DEF Ends!Arrive, transit
  <2>6. Carried(Hash, Bytes)'
    <3>1. arrived' \in [Flows -> Seq(M)]
      BY <1>1, <2>1, <2>4
    <3> QED
      BY <1>1, <1>2, <1>3, <2>1, <3>1 DEF Carried, M
  <2> QED
    BY <2>5, <2>6
<1>12. CASE Destination(d) # l[2]
  <2>1. At(i + 1, f, T) # f[2]
    BY <1>6, <1>7, <1>12
  <2>2. n = <<l[2], T[l[2]][f[2]]>> /\ n \in links
    BY <1>1, <1>7, <2>1, Walk DEF LinkAt
  <2>3. UNCHANGED arrived /\ queue' = [P EXCEPT ![n] = EnQ(@, d)]
    BY <1>2, <1>6, <1>12, <2>2 DEF Recv
  <2>4. P \in [links -> Seq(Carriers(M))]
    BY <1>3 DEF Filled
  <2>5. queue' = P \/ queue' = R
    BY <2>2, <2>3, <2>4 DEF EnQ, Longer
  <2>6. CASE queue' = P
    <3>1. Ends!Lose(f)
      <4>1. transit[f] = Before(s, Before(One(m), t))
        BY <1>9 DEF transit
      <4>2. Len(s) + 1 \in DOMAIN transit[f] /\ RemoveAt(transit[f], Len(s) + 1) = Before(s, t)
        BY <4>1, Removed
      <4>3. transit' = [transit EXCEPT ![f] = RemoveAt(@, Len(s) + 1)]
        BY <1>10, <2>6, <4>2
      <4> QED
        <5>1. \E k \in DOMAIN transit[f] :
                 transit' = [transit EXCEPT ![f] = RemoveAt(@, k)]
          BY <4>2, <4>3
        <5>2. UNCHANGED <<sent, arrived>>
          BY <1>2, <2>3
        <5> QED
          BY <5>1, <5>2 DEF Ends!Lose, Ends!RemoveAt, RemoveAt, transit
    <3>2. Carried(Hash, Bytes)'
      BY <1>1, <1>2, <1>3, <2>3, <2>6 DEF Carried, M
    <3> QED
      BY <3>1, <3>2
  <2>7. CASE queue' = R
    <3>1. /\ Filled(R, T, links, M)
          /\ \A g \in Flows : InTransit(g, T, R) = InTransit(g, T, queue)
      BY <1>1, <1>3, <1>4, <1>5, <2>1, Passing DEF M
    <3>2. Carried(Hash, Bytes)'
      BY <1>1, <1>2, <2>3, <2>7, <3>1 DEF Carried, M
    <3>3. transit' = [g \in Flows |-> InTransit(g, T, R)]
      BY <1>2, <2>7 DEF transit
    <3>4. transit' = transit
      <4> HIDE DEF T, R
      <4> QED
        BY <3>1, <3>3 DEF transit, T
    <3> QED
      BY <1>2, <2>3, <3>2, <3>4
  <2> QED
    BY <2>5, <2>6, <2>7
<1> QED
  BY <1>11, <1>12

\* Each step of the network is a step of Channel, or none.
LEMMA StepCarries ==
    ASSUME NEW Hash, NEW Bytes, Usable(Hash, Bytes), Carried(Hash, Bytes),
           [Next]_vars
    PROVE  /\ Carried(Hash, Bytes)'
           /\ [Ends!Next]_<<transit, sent, arrived>>
<1>1. CASE \E f \in Flows : Insert(f)
  BY <1>1, InsertSends DEF Ends!Next
<1>2. CASE \E l \in links : Run(l)
  BY <1>2, RunCarries DEF Ends!Next
<1>3. CASE UNCHANGED vars
  <2>1. UNCHANGED transit
    BY <1>3 DEF vars, transit
  <2>2. Carried(Hash, Bytes)'
    BY <1>3 DEF vars, Carried
  <2> QED
    BY <1>3, <2>1, <2>2 DEF vars
<1> QED
  BY <1>1, <1>2, <1>3 DEF Next

\* In the beginning there is nothing on its way.
LEMMA InitCarries ==
    ASSUME NEW Hash, NEW Bytes, Usable(Hash, Bytes), Init,
           TablesFit(routingTable, links)
    PROVE  Carried(Hash, Bytes) /\ Ends!Init
<1> DEFINE M == Sent(Hash, Bytes)
           Q == [l \in links |-> <<>>]
<1>1. /\ queue = Q /\ sent = [f \in Flows |-> 0] /\ arrived = [f \in Flows |-> <<>>]
  BY DEF Init
<1>2. sent \in [Flows -> Nat] /\ arrived \in [Flows -> Seq(M)]
  BY <1>1
<1>3. Filled(queue, routingTable, links, M)
  BY <1>1 DEF Filled, OnItsWay
<1>4. Queues(queue, links, Carriers(M), M)
  BY <1>3, FilledQueues
<1>5. ASSUME NEW f \in Flows PROVE InTransit(f, routingTable, queue) = <<>>
  <2> DEFINE a == OnLinks(f, routingTable, queue)
             N == NRouters
  <2>0. N \in Nat /\ IsFlow(f)
    BY Routing_Assumption DEF Usable
  <2>1. PICK g : /\ Joined(g, a, N, M)
                 /\ InTransit(f, routingTable, queue) = g[N]
    BY <1>4, <2>0, OnLinksType, InTransitDef
  <2>2. ASSUME NEW k \in 1 .. N PROVE a[k] = <<>>
    <3>1. k - 1 \in Nat
      BY <2>0
    <3>2. OfFlow(<<>>, f) = <<>>
      BY <1>4, OfFlowNone DEF Queues
    <3>3. CASE At(k - 1, f, routingTable) # f[2]
      <4>1. LinkAt(k - 1, f, routingTable) \in links
        BY <2>0, <3>1, <3>3, Walk
      <4>2. queue[LinkAt(k - 1, f, routingTable)] = <<>>
        BY <1>1, <4>1
      <4> QED
        BY <3>2, <4>2, OnLinksAt
    <3> QED
      BY <3>3, OnLinksAt
  <2> DEFINE S == {k \in 0 .. N : g[k] = <<>>}
  <2> HIDE DEF a, N
  <2>3. 0 \in S
    BY <2>0, <2>1 DEF Joined
  <2>4. ASSUME NEW k \in 0 .. N - 1, k \in S PROVE k + 1 \in S
    <3>1. k + 1 \in 1 .. N /\ k + 1 \in 0 .. N
      BY <2>0
    <3>2. g[k + 1] = Before(a[k + 1], g[k])
      BY <2>0, <2>1, JoinedNext
    <3>3. Before(<<>>, <<>>) = <<>>
      BY DEF Before
    <3> QED
      BY <2>2, <2>4, <3>1, <3>2, <3>3
  <2>5. \A k \in 0 .. N : k \in S
    <3> HIDE DEF S
    <3> QED
      BY <2>0, <2>3, <2>4, Induction
  <2>6. N \in S
    BY <2>0, <2>5
  <2> QED
    BY <2>1, <2>6
<1>6. Ends!Init
  BY <1>1, <1>5 DEF Ends!Init
<1> QED
  BY <1>2, <1>3, <1>6 DEF Carried

-----------------------------------------------------------------------------
(* The two theorems. *)

\* The tables that the routers start with fit together.
LEMMA InitFits ==
    ASSUME Init
    PROVE  TablesFit(routingTable, links)
<1> DEFINE Both(e) == e \cup {<<l[2], l[1]>> : l \in e}
           Line == {l \in Routers \X Routers : l[1] < l[2]}
<1>0. NRouters \in Nat /\ Routers = 1 .. NRouters
  BY Routing_Assumption DEF Routers
<1>1. Connected(links) /\ \E s \in SUBSET Line : links = Both(s)
  BY DEF Init, Topologies
<1>2. PICK s \in SUBSET Line : links = Both(s)
  BY <1>1
<1>3. \A l \in links : l \in Routers \X Routers /\ l[1] # l[2]
  <2> SUFFICES ASSUME NEW l \in links
               PROVE  l \in Routers \X Routers /\ l[1] # l[2]
    OBVIOUS
  <2>1. PICK k \in s : l = k \/ l = <<k[2], k[1]>>
    BY <1>2
  <2>2. k \in Routers \X Routers /\ k[1] < k[2] /\ k[1] \in Nat /\ k[2] \in Nat
    BY <1>0
  <2>3. k[1] # k[2]
    BY <2>2
  <2> QED
    BY <2>1, <2>2, <2>3
<1>4. routingTable = CreateTables(links)
  BY DEF Init
<1>5. Routed(routingTable, NRouters, links)
  BY <1>1, <1>3, <1>4, CreateTablesIs
<1>6. \A r, d \in Routers : r # d =>
        /\ <<r, routingTable[r][d]>> \in links
        /\ After(Hops(r, d, links), r, d, routingTable) = d
  BY <1>1, <1>5, Reaches
<1> QED
  BY <1>1, <1>3, <1>6 DEF TablesFit

\* In every connected topology, for any number of routers, the tables that
\* createTable makes for one router after another send a packet from neighbour to
\* neighbour on a shortest way to where it is to go.
THEOREM RoutesAlwaysShortest == Spec => []RoutesAreShortest
<1>1. Init => TablesFit(routingTable, links)
  BY InitFits
<1>2. TablesFit(routingTable, links) /\ [Next]_vars => TablesFit(routingTable, links)'
  <2> SUFFICES ASSUME TablesFit(routingTable, links), [Next]_vars
               PROVE  TablesFit(routingTable, links)'
    OBVIOUS
  <2>1. UNCHANGED <<links, routingTable>>
    BY DEF Next, Insert, Run, vars
  <2> QED
    BY <2>1 DEF TablesFit
<1>3. TablesFit(routingTable, links) => RoutesAreShortest
  BY DEF TablesFit, RoutesAreShortest
<1> QED
  BY <1>1, <1>2, <1>3, PTL DEF Spec

\* Whatever messages, but for requests for 63 chunks, any number of peers send one
\* another, over any connected topology and any size of queues, the routers
\* implement Channel: what arrives is what was sent, from whom it was sent, in
\* that order and once, although all flows share the queues and lose packets there.
THEOREM NetworkIsChannel ==
    ASSUME NEW Hash, NEW Bytes, Usable(Hash, Bytes)
    PROVE  Spec => ImplementsChannel
<1>1. Init => Carried(Hash, Bytes) /\ Ends!Init
  BY InitCarries, InitFits
<1>2. Carried(Hash, Bytes) /\ [Next]_vars
      => Carried(Hash, Bytes)' /\ [Ends!Next]_<<transit, sent, arrived>>
  BY StepCarries
<1> QED
  BY <1>1, <1>2, PTL DEF Spec, ImplementsChannel, Ends!Spec, transit
=============================================================================
