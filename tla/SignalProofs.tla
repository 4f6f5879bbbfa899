---------------------------- MODULE SignalProofs -----------------------------
(***************************************************************************)
(* The invariants of SignalRace: what a signal between any two statements  *)
(* of a packet handler cannot break, for any number of peers and slots and *)
(* any number of signals during a handler.                                 *)
(*                                                                         *)
(* Inv says what holds at every statement: how far a counter or a status   *)
(* may be behind the slots there, what the handler has checked and may     *)
(* still rely on, and which connection may be without its timer or its     *)
(* window until the handler ends.                                          *)
(***************************************************************************)
EXTENDS SignalRace, PoolTheorems

\* Where a handler of each kind of packet can be.
StatementsOf(type) ==
    CASE type = "IHAVE" -> {"admit", "provide", "add", "count", "counted", "asked"}
      [] type = "GET" -> {"remove", "freed", "uncount", "uncounted", "admit",
                          "add", "count", "counted", "send", "next", "passed"}
      [] type = "DATA" -> {"copy", "stamp", "save", "remove", "freed",
                           "uncount", "uncounted", "completed"}
      [] type = "ACK" -> {"acknowledge", "duplicate", "retransmit"}

\* Pools and registers have their types, and a statement its packet.
TypeOK ==
    /\ statuses \in [Hash -> {"NOT_DOWNLOADED", "DOWNLOADING", "DONE"}]
    /\ download_pool \in PoolOf(max_conn, DownloadConnection)
    /\ upload_pool \in PoolOf(max_conn, UploadConnection)
    /\ alarm \in BOOLEAN /\ reg \in Int /\ signals \in Nat
    /\ pc # "select" => /\ pkt \in Packet
                        /\ pkt.type \in {"IHAVE", "GET", "DATA", "ACK"}
                        /\ pc \in StatementsOf(pkt.type)
    /\ pc = "add" /\ pkt.type = "IHAVE" => \E h \in Hash : pkt.chunks = {h}

\* No peer has two connections of a pool.
OneEach(pool) ==
    \A j, k \in Occupied(pool) :
        pool.connections[j].peer = pool.connections[k].peer => j = k

\* By how much the counter exceeds the slots at a statement, at least.
Slack(label) ==
    IF label \in {"uncount", "uncounted"} THEN 1
    ELSE IF label \in {"count", "counted"} THEN -1 ELSE 0

Covers(count, pool, slack) == count >= Cardinality(Occupied(pool)) + slack

CountersOK ==
    /\ OneEach(download_pool) /\ OneEach(upload_pool)
    /\ Covers(download_pool.size, download_pool,
              IF pc # "select" /\ Downloads THEN Slack(pc) ELSE 0)
    /\ Covers(upload_pool.size, upload_pool,
              IF pc # "select" /\ ~Downloads THEN Slack(pc) ELSE 0)
    /\ pc \in {"counted", "uncounted"} => Covers(reg, Pool, Slack(pc))
    /\ pc \in {"provide", "add"} => Cardinality(Occupied(Pool)) < max_conn
    /\ pc \in {"admit", "provide", "add", "uncount", "uncounted"}
       => ~Connected(Pool, pkt.peer)
    /\ pc = "freed" => Connected(Pool, pkt.peer)

\* The handler that made a connection sets the timer before it returns.
TimerOK ==
    \/ alarm
    \/ Occupied(download_pool) \cup Occupied(upload_pool) = {}
    \/ /\ pc \in {"count", "counted", "asked", "send", "next", "passed"}
       /\ Connected(Pool, pkt.peer)

\* The upload connection process_GET is sending the window of.
Sending(k) ==
    /\ pc \in {"count", "counted", "send", "next", "passed"}
    /\ ~Downloads
    /\ upload_pool.connections[k].peer = pkt.peer

WindowOK ==
    /\ \A k \in Occupied(upload_pool) :
        LET c == upload_pool.connections[k]
        IN  /\ c.available = Available(c.last_acked)
            /\ c.next <= c.available + 2
            /\ ~Sending(k) => c.next > c.available
            /\ pc \in {"next", "passed"} /\ Sending(k) => c.next <= c.available + 1
            /\ pc = "passed" /\ Sending(k) => reg <= c.available + 1

\* The chunk update_provider has marked and has no connection yet.
Promised == IF pc = "add" /\ Downloads THEN pkt.chunks ELSE {}

\* The slot whose chunk save_data has judged, and which is still taken.
Judged ==
    IF pc \in {"remove", "freed"} /\ Downloads
    THEN SlotsOf(download_pool, pkt.peer) ELSE {}

TableOK ==
    /\ \A j, k \in Occupied(download_pool) :
        download_pool.connections[j].sha1 = download_pool.connections[k].sha1
        => j = k
    /\ \A h \in Promised : \A k \in Occupied(download_pool) :
        download_pool.connections[k].sha1 # h
    /\ \A h \in Hash :
        statuses[h] = "DOWNLOADING"
        <=> \/ h \in Promised
            \/ \E k \in Occupied(download_pool) \ Judged :
                   download_pool.connections[k].sha1 = h

\* A connection that was stamped has been late at most once for each signal.
StampedOK ==
    pc \in {"save", "remove"} /\ Downloads =>
        \A k \in SlotsOf(download_pool, pkt.peer) :
            download_pool.connections[k].overtime_count <= signals

Inv == TypeOK /\ CountersOK /\ TimerOK /\ WindowOK /\ TableOK /\ StampedOK

-----------------------------------------------------------------------------
(* What the statements do to a pool. *)

\* The connection with a peer is in one slot, and the rest of the pool is not
\* with that peer.
LEMMA SlotOfPeer ==
    ASSUME NEW n \in Nat, NEW C, NULL \notin C, NEW pool \in PoolOf(n, C),
           NEW q, Connected(pool, q), OneEach(pool)
    PROVE  SlotsOf(pool, q) = {Min(SlotsOf(pool, q))}
<1>1. Min(SlotsOf(pool, q)) \in SlotsOf(pool, q)
  BY FindInPool
<1>2. \A k \in SlotsOf(pool, q) : k = Min(SlotsOf(pool, q))
  BY <1>1 DEF OneEach, SlotsOf
<1> QED
  BY <1>1, <1>2

\* Writing to the slot of a connection leaves the counter alone.
LEMMA UpdateForm ==
    ASSUME NEW n \in Nat, NEW C, NEW pool \in PoolOf(n, C), NEW q, NEW c
    PROVE  Update(pool, q, c)
           = [connections |-> [pool.connections EXCEPT ![Min(SlotsOf(pool, q))] = c],
              size |-> pool.size]
  BY DEF Update, PoolOf

\* A field of the connection is written, its peer is not.
LEMMA Written ==
    ASSUME NEW n \in Nat, NEW C, NULL \notin C, NEW pool \in PoolOf(n, C),
           NEW q, Connected(pool, q), OneEach(pool), NEW c \in C, c.peer = q
    PROVE  LET new == Update(pool, q, c)
           IN  /\ new \in PoolOf(n, C)
               /\ new.size = pool.size
               /\ Occupied(new) = Occupied(pool)
               /\ OneEach(new)
               /\ \A k \in Occupied(pool) :
                    /\ new.connections[k].peer = pool.connections[k].peer
                    /\ new.connections[k] =
                          IF k \in SlotsOf(pool, q) THEN c
                          ELSE pool.connections[k]
               /\ \A t : SlotsOf(new, t) = SlotsOf(pool, t)
<1> DEFINE new == Update(pool, q, c)
<1>1. /\ new \in PoolOf(n, C)
      /\ new.size = pool.size
      /\ Occupied(new) = Occupied(pool)
      /\ \A k \in Occupied(pool) :
           new.connections[k] =
               IF k = Min(SlotsOf(pool, q)) THEN c ELSE pool.connections[k]
  BY UpdateSlots
<1>2. SlotsOf(pool, q) = {Min(SlotsOf(pool, q))}
  BY SlotOfPeer
<1>3. \A k \in Occupied(pool) :
        /\ new.connections[k].peer = pool.connections[k].peer
        /\ new.connections[k] = IF k \in SlotsOf(pool, q) THEN c
                                ELSE pool.connections[k]
  <2> SUFFICES ASSUME NEW k \in Occupied(pool)
               PROVE  /\ new.connections[k].peer = pool.connections[k].peer
                      /\ new.connections[k] =
                           IF k \in SlotsOf(pool, q) THEN c
                           ELSE pool.connections[k]
    OBVIOUS
  <2>1. k \in SlotsOf(pool, q) <=> k = Min(SlotsOf(pool, q))
    BY <1>2
  <2>2. k \in SlotsOf(pool, q) => pool.connections[k].peer = q
    BY DEF SlotsOf
  <2> HIDE DEF new
  <2> QED
    BY <1>1, <2>1, <2>2
<1>4. OneEach(new)
  BY <1>1, <1>3 DEF OneEach
<1>5. \A t : SlotsOf(new, t) = SlotsOf(pool, t)
  BY <1>1, <1>3 DEF SlotsOf
<1> QED
  BY <1>1, <1>3, <1>4, <1>5

\* The slot of a connection is cleared, whatever becomes of the counter.
LEMMA Cleared ==
    ASSUME NEW n \in Nat, NEW C, NULL \notin C, NEW pool \in PoolOf(n, C),
           NEW q, Connected(pool, q), OneEach(pool), NEW size \in Int
    PROVE  LET new == [connections |->
                          [pool.connections EXCEPT ![Min(SlotsOf(pool, q))] = NULL],
                       size |-> size]
           IN  /\ new \in PoolOf(n, C)
               /\ Occupied(new) = Occupied(pool) \ SlotsOf(pool, q)
               /\ \A k \in Occupied(new) :
                    new.connections[k] = pool.connections[k]
               /\ OneEach(new)
               /\ Cardinality(Occupied(new)) = Cardinality(Occupied(pool)) - 1
               /\ \A t : SlotsOf(new, t) = SlotsOf(pool, t) \ SlotsOf(pool, q)
<1> DEFINE m == Min(SlotsOf(pool, q))
           new == [connections |-> [pool.connections EXCEPT ![m] = NULL],
                   size |-> size]
<1>1. m \in 0 .. n - 1 /\ SlotsOf(pool, q) = {m} /\ m \in Occupied(pool)
  BY FindInPool, SlotOfPeer
<1>2. pool.connections \in [0 .. n - 1 -> C \cup {NULL}]
  BY DEF PoolOf
<1>3. new \in PoolOf(n, C)
  BY <1>1, <1>2 DEF PoolOf
<1>4. \A k \in 0 .. n - 1 :
        new.connections[k] = IF k = m THEN NULL ELSE pool.connections[k]
  BY <1>1, <1>2
<1>5. Occupied(new) = Occupied(pool) \ SlotsOf(pool, q)
  <2>1. DOMAIN new.connections = 0 .. n - 1 /\ DOMAIN pool.connections = 0 .. n - 1
    BY <1>2
  <2> HIDE DEF new
  <2> QED
    BY <1>1, <1>4, <2>1 DEF Occupied
<1>6. \A k \in Occupied(new) : new.connections[k] = pool.connections[k]
  <2> HIDE DEF new
  <2> QED
    BY <1>1, <1>4, <1>5, PoolSlots
<1> HIDE DEF new
<1>7. OneEach(new)
  BY <1>5, <1>6 DEF OneEach
<1>8. \A t : SlotsOf(new, t) = SlotsOf(pool, t) \ SlotsOf(pool, q)
  BY <1>5, <1>6 DEF SlotsOf
<1>9. Cardinality(Occupied(new)) = Cardinality(Occupied(pool)) - 1
  <2>1. IsFiniteSet(Occupied(pool))
    BY PoolSlots
  <2>2. Cardinality(Occupied(pool) \ {m}) = Cardinality(Occupied(pool)) - 1
    BY <1>1, <2>1, FS_RemoveElement
  <2> QED
    BY <1>1, <1>5, <2>2
<1> QED
  BY <1>3, <1>5, <1>6, <1>7, <1>8, <1>9 DEF new

\* A connection is put into a free slot, whatever becomes of the counter.
LEMMA Filled ==
    ASSUME NEW n \in Nat, NEW C, NULL \notin C, NEW pool \in PoolOf(n, C),
           OneEach(pool), Cardinality(Occupied(pool)) < n,
           NEW c \in C, ~Connected(pool, c.peer), NEW size \in Int
    PROVE  LET f == Min(FreeSlots(pool))
               new == [AddTo(pool, c) EXCEPT !.size = size]
           IN  /\ new \in PoolOf(n, C)
               /\ f \notin Occupied(pool)
               /\ Occupied(new) = Occupied(pool) \cup {f}
               /\ new.connections[f] = c
               /\ \A k \in Occupied(pool) :
                    new.connections[k] = pool.connections[k]
               /\ OneEach(new)
               /\ Cardinality(Occupied(new)) = Cardinality(Occupied(pool)) + 1
<1> DEFINE even == [pool EXCEPT !.size = Cardinality(Occupied(pool))]
           f == Min(FreeSlots(pool))
           new == [AddTo(pool, c) EXCEPT !.size = size]
<1>1. Cardinality(Occupied(pool)) \in Nat
  BY PoolSlots
<1>2. /\ even \in PoolOf(n, C)
      /\ even.connections = pool.connections
      /\ even.size = Cardinality(Occupied(pool))
  BY <1>1 DEF PoolOf
<1>3. Occupied(even) = Occupied(pool) /\ FreeSlots(even) = FreeSlots(pool)
  BY <1>2 DEF Occupied, FreeSlots
<1>4. Consistent(even) /\ ~Connected(even, c.peer)
  BY <1>2, <1>3 DEF Consistent, OneEach, Connected, SlotsOf
<1> HIDE DEF even
<1>5. /\ f \in 0 .. n - 1 /\ f \notin Occupied(pool)
      /\ Occupied(AddTo(even, c)) = Occupied(pool) \cup {f}
      /\ AddTo(even, c).connections[f] = c
      /\ \A k \in Occupied(pool) :
           AddTo(even, c).connections[k] = pool.connections[k]
      /\ Consistent(AddTo(even, c))
  BY <1>2, <1>3, <1>4, AddToConsistent
<1>6. AddTo(pool, c) \in PoolOf(n, C)
  BY AddToType
<1>7. new \in PoolOf(n, C) /\ new.connections = AddTo(pool, c).connections
  BY <1>6 DEF PoolOf
<1>8. AddTo(pool, c).connections = AddTo(even, c).connections
  BY <1>2, <1>3 DEF AddTo
<1>9. Occupied(new) = Occupied(AddTo(even, c))
  BY <1>7, <1>8 DEF Occupied
<1>10. IsFiniteSet(Occupied(pool))
  BY PoolSlots
<1>11. Cardinality(Occupied(pool) \cup {f}) = Cardinality(Occupied(pool)) + 1
  BY <1>5, <1>10, FS_AddElement
<1>12. OneEach(new)
  BY <1>5, <1>7, <1>8, <1>9 DEF Consistent, OneEach
<1> QED
  BY <1>5, <1>7, <1>8, <1>9, <1>11, <1>12

\* The counter alone is written.
LEMMA Recounted ==
    ASSUME NEW n \in Nat, NEW C, NULL \notin C, NEW pool \in PoolOf(n, C),
           NEW size \in Int
    PROVE  LET new == [pool EXCEPT !.size = size]
           IN  /\ new \in PoolOf(n, C)
               /\ new.size = size
               /\ new.connections = pool.connections
               /\ Occupied(new) = Occupied(pool)
               /\ OneEach(pool) => OneEach(new)
               /\ \A t : SlotsOf(new, t) = SlotsOf(pool, t)
<1> DEFINE new == [pool EXCEPT !.size = size]
<1>1. new \in PoolOf(n, C) /\ new.size = size /\ new.connections = pool.connections
  BY DEF PoolOf
<1> HIDE DEF new
<1>2. Occupied(new) = Occupied(pool)
  BY <1>1 DEF Occupied
<1> QED
  BY <1>1, <1>2 DEF OneEach, SlotsOf, new

\* handle_timeout counts what it gives up.
LEMMA TimedOut ==
    ASSUME NEW n \in Nat, NEW C, NULL \notin C, NEW pool \in PoolOf(n, C),
           OneEach(pool),
           NEW late \in SUBSET Occupied(pool), NEW retried,
           \A k \in late \ GivenUp(pool, late) :
               /\ retried[k] \in C
               /\ retried[k].peer = pool.connections[k].peer
    PROVE  LET new == Checked(pool, late, retried)
               out == GivenUp(pool, late)
           IN  /\ new \in PoolOf(n, C)
               /\ Occupied(new) = Occupied(pool) \ out
               /\ \A k \in Occupied(new) :
                    /\ new.connections[k].peer = pool.connections[k].peer
                    /\ new.connections[k] =
                          IF k \in late THEN retried[k] ELSE pool.connections[k]
               /\ OneEach(new)
               /\ Cardinality(Occupied(new)) <= Cardinality(Occupied(pool))
               /\ new.size - Cardinality(Occupied(new))
                  = pool.size - Cardinality(Occupied(pool))
               /\ \A t : SlotsOf(new, t) = SlotsOf(pool, t) \ out
<1> DEFINE new == Checked(pool, late, retried)
           out == GivenUp(pool, late)
<1>1. \A k \in late \ out : retried[k] \in C
  OBVIOUS
<1>2. /\ out \subseteq late /\ out \subseteq Occupied(pool)
      /\ IsFiniteSet(Occupied(pool))
  BY PoolSlots DEF GivenUp
<1>3. /\ new \in PoolOf(n, C)
      /\ Occupied(new) = Occupied(pool) \ out
      /\ \A k \in Occupied(new) :
           new.connections[k] =
               IF k \in late THEN retried[k] ELSE pool.connections[k]
  BY <1>1, CheckedType, CheckedSlots
<1>4. new.size = pool.size - Cardinality(out)
  BY DEF Checked
<1> HIDE DEF new, out
<1>5. \A k \in Occupied(new) :
        new.connections[k].peer = pool.connections[k].peer
  BY <1>2, <1>3 DEF out
<1>6. OneEach(new)
  BY <1>3, <1>5 DEF OneEach
<1>7. \A t : SlotsOf(new, t) = SlotsOf(pool, t) \ out
  BY <1>3, <1>5 DEF SlotsOf
<1>8. /\ Cardinality(out) \in Nat
      /\ Cardinality(Occupied(new)) = Cardinality(Occupied(pool)) - Cardinality(out)
  <2>1. IsFiniteSet(out) /\ Occupied(pool) \cap out = out
    BY <1>2, FS_Subset
  <2>2. Cardinality(Occupied(pool) \ out)
        = Cardinality(Occupied(pool)) - Cardinality(Occupied(pool) \cap out)
    BY <1>2, FS_Difference
  <2> QED
    BY <1>3, <2>1, <2>2, FS_CardinalityType
<1>9. Cardinality(Occupied(pool)) \in Nat /\ pool.size \in Int
  BY PoolSlots
<1>10. /\ Cardinality(Occupied(new)) <= Cardinality(Occupied(pool))
       /\ new.size - Cardinality(Occupied(new))
          = pool.size - Cardinality(Occupied(pool))
  BY <1>4, <1>8, <1>9
<1> QED
  BY <1>3, <1>5, <1>6, <1>7, <1>10 DEF new, out

-----------------------------------------------------------------------------
(* Packets and pools at a statement. *)

\* What every packet and what the packets of each type contain.
LEMMA PacketFields ==
    ASSUME NEW p \in Packet
    PROVE  /\ p.peer \in Peer
           /\ p.type \in {"IHAVE", "GET", "DATA", "ACK"}
           /\ p.type = "IHAVE" => p.chunks \in SUBSET Hash
           /\ p.type = "DATA" => p.seq_num \in 1 .. CHUNK_SIZE
           /\ p.type = "ACK" => p.ack_num \in 0 .. CHUNK_SIZE
  BY DEF Packet

\* Which packet is handled at a statement.
LEMMA PacketAt ==
    ASSUME TypeOK, pc # "select"
    PROVE  /\ pkt \in Packet /\ pkt.peer \in Peer
           /\ pc \in {"provide", "asked"} => pkt.type = "IHAVE"
           /\ pc \in {"admit", "add", "count", "counted"}
              => pkt.type \in {"IHAVE", "GET"}
           /\ pc \in {"send", "next", "passed"} => pkt.type = "GET"
           /\ pc \in {"remove", "freed", "uncount", "uncounted"}
              => pkt.type \in {"GET", "DATA"}
           /\ pc \in {"copy", "stamp", "save", "completed"} => pkt.type = "DATA"
           /\ pc \in {"acknowledge", "duplicate", "retransmit"}
              => pkt.type = "ACK"
<1>1. /\ pkt \in Packet
      /\ pkt.type \in {"IHAVE", "GET", "DATA", "ACK"}
      /\ pc \in StatementsOf(pkt.type)
  BY DEF TypeOK
<1>2. pkt.peer \in Peer
  BY <1>1, PacketFields
<1> QED
  BY <1>1, <1>2 DEF StatementsOf

\* The pools, and the one the handler works on.
LEMMA PoolsAt ==
    ASSUME TypeOK
    PROVE  /\ max_conn \in Nat
           /\ NULL \notin DownloadConnection /\ NULL \notin UploadConnection
           /\ download_pool \in PoolOf(max_conn, DownloadConnection)
           /\ upload_pool \in PoolOf(max_conn, UploadConnection)
           /\ Cardinality(Occupied(download_pool)) \in Nat
           /\ Cardinality(Occupied(upload_pool)) \in Nat
           /\ download_pool.size \in Int /\ upload_pool.size \in Int
           /\ \A k \in Occupied(download_pool) :
                download_pool.connections[k] \in DownloadConnection
           /\ \A k \in Occupied(upload_pool) :
                upload_pool.connections[k] \in UploadConnection
<1>1. /\ max_conn \in Nat
      /\ NULL \notin DownloadConnection /\ NULL \notin UploadConnection
      /\ download_pool \in PoolOf(max_conn, DownloadConnection)
      /\ upload_pool \in PoolOf(max_conn, UploadConnection)
  BY SignalRace_Assumption, NULL_Assumption DEF TypeOK
<1>2. /\ download_pool.size \in Int /\ upload_pool.size \in Int
      /\ Cardinality(Occupied(download_pool)) \in Nat
      /\ Cardinality(Occupied(upload_pool)) \in Nat
  BY <1>1, PoolSlots
<1>3. /\ \A k \in Occupied(download_pool) :
          download_pool.connections[k] \in DownloadConnection
      /\ \A k \in Occupied(upload_pool) :
          upload_pool.connections[k] \in UploadConnection
  BY <1>1, PoolSlots
<1> QED
  BY <1>1, <1>2, <1>3

\* The connection a handler has found.
LEMMA ConnectionAt ==
    ASSUME Inv, pc # "select", Connected(Pool, pkt.peer)
    PROVE  /\ Downloads => Connection \in DownloadConnection
           /\ ~Downloads => Connection \in UploadConnection
           /\ Connection.peer = pkt.peer
           /\ \A k \in SlotsOf(Pool, pkt.peer) : Pool.connections[k] = Connection
<1>1. CASE Downloads
  BY <1>1, PoolsAt, FindInPool, SlotOfPeer DEF Inv, CountersOK, Pool, Connection
<1>2. CASE ~Downloads
  BY <1>2, PoolsAt, FindInPool, SlotOfPeer DEF Inv, CountersOK, Pool, Connection
<1> QED
  BY <1>1, <1>2

\* The connection process_GET sends the window of.
LEMMA SendingAt ==
    ASSUME Inv, pc \in {"count", "counted", "send", "next", "passed"}
    PROVE  /\ ~Downloads => Pool = upload_pool
           /\ pc \in {"send", "next", "passed"} => ~Downloads
           /\ \A k \in Occupied(upload_pool) :
                ~Downloads => (Sending(k) <=> k \in SlotsOf(Pool, pkt.peer))
           /\ \A k \in Occupied(upload_pool) :
                Sending(k) => upload_pool.connections[k] = Connection
<1>1. pc \in {"send", "next", "passed"} => ~Downloads
  BY PacketAt DEF Inv, Downloads
<1>2. ~Downloads => Pool = upload_pool
  BY DEF Pool
<1>3. \A k \in Occupied(upload_pool) :
        ~Downloads => (Sending(k) <=> k \in SlotsOf(Pool, pkt.peer))
  BY <1>2 DEF Sending, SlotsOf
<1>4. \A k \in Occupied(upload_pool) :
        Sending(k) => upload_pool.connections[k] = Connection
  BY <1>2, <1>3, ConnectionAt DEF Sending, Connected
<1> QED
  BY <1>1, <1>2, <1>3, <1>4

-----------------------------------------------------------------------------
(* Statements that write no pool and no status. *)

Reads ==
    \/ \E p \in Packet : Receive(p)
    \/ Free \/ LoadToUncount \/ Admit \/ ProvideNothing \/ LoadToCount \/ Ask
    \/ SendDATA \/ LoadNext \/ AllSent \/ Completed \/ LoadDuplicates
    \/ UseAfterFree \/ FreedTwice

\* They leave the pools and the table alone.
LEMMA ReadsNothing ==
    Reads => UNCHANGED <<statuses, download_pool, upload_pool>>
  BY DEF Reads, Receive, Free, LoadToUncount, Admit, ProvideNothing,
         LoadToCount,
         Ask, SendDATA, LoadNext, AllSent, Completed, LoadDuplicates,
         UseAfterFree, FreedTwice, Load, Crash

\* Of the invariant they keep the types,
LEMMA ReadsTypes ==
    ASSUME Inv, Reads
    PROVE  TypeOK'
<1>1. UNCHANGED <<statuses, download_pool, upload_pool>>
  BY ReadsNothing
<1>2. ASSUME NEW p \in Packet, Receive(p) PROVE TypeOK'
  BY <1>2, PacketFields
     DEF Inv, TypeOK, Receive, FirstStatement, StatementsOf, At
<1>3. ASSUME Free PROVE TypeOK'
  BY <1>1, <1>3, PacketAt DEF Inv, TypeOK, Free, Goto, At, StatementsOf
<1>4. ASSUME Admit PROVE TypeOK'
  BY <1>1, <1>4, PacketAt DEF Inv, TypeOK, Admit, Goto, At, StatementsOf
<1>5. ASSUME Ask PROVE TypeOK'
  BY <1>1, <1>5 DEF Inv, TypeOK, Ask, Goto, At, StatementsOf
<1>6. ASSUME SendDATA PROVE TypeOK'
  BY <1>1, <1>6, PacketAt DEF Inv, TypeOK, SendDATA, Goto, At, StatementsOf
<1>7. ASSUME AllSent PROVE TypeOK'
  BY <1>1, <1>7 DEF Inv, TypeOK, AllSent, Goto, At, StatementsOf
<1>8. ASSUME Completed PROVE TypeOK'
  BY <1>1, <1>8 DEF Inv, TypeOK, Completed, Goto, At, StatementsOf
<1>9. ASSUME Crash PROVE TypeOK'
  BY <1>1, <1>9 DEF Inv, TypeOK, Crash, At, StatementsOf
<1>10. ASSUME LoadToUncount PROVE TypeOK'
  BY <1>1, <1>10, PacketAt, PoolsAt
     DEF Inv, TypeOK, LoadToUncount, Load, Pool, At, StatementsOf
<1>11. ASSUME LoadToCount PROVE TypeOK'
  BY <1>1, <1>11, PacketAt, PoolsAt
     DEF Inv, TypeOK, LoadToCount, Load, Pool, At, StatementsOf
<1>12. ASSUME LoadNext PROVE TypeOK'
  <2>1. Connection.next \in Int
    BY <1>12, PacketAt, ConnectionAt
       DEF Inv, LoadNext, At, UploadConnection, Downloads, Pool
  <2> QED
    BY <1>1, <1>12, <2>1, PacketAt
       DEF Inv, TypeOK, LoadNext, Load, At, StatementsOf
<1>13. ASSUME LoadDuplicates PROVE TypeOK'
  <2>1. Connection.duplicate_num \in Int
    BY <1>13, PacketAt, ConnectionAt
       DEF Inv, LoadDuplicates, At, UploadConnection, Downloads, Pool
  <2> QED
    BY <1>1, <1>13, <2>1, PacketAt
       DEF Inv, TypeOK, LoadDuplicates, Load, At, StatementsOf
<1>14. ASSUME UseAfterFree, ~Crash PROVE TypeOK'
  <2>1. pc' = "select" /\ reg' = 0 /\ signals' = 0 /\ alarm' \in {alarm, TRUE}
    BY <1>14 DEF UseAfterFree, Goto
  <2>2. alarm' \in BOOLEAN
    BY <2>1, Zenon DEF Inv, TypeOK
  <2> QED
    BY <1>1, <2>1, <2>2 DEF Inv, TypeOK
<1> QED
  BY <1>2, <1>14, <1>3, <1>4, <1>5, <1>6, <1>7, <1>8, <1>9, <1>10, <1>11,
     <1>12, <1>13
     DEF Reads, ProvideNothing, FreedTwice

\* the counters, whose loads and stores they begin and end,
LEMMA ReadsCounters ==
    ASSUME Inv, Reads
    PROVE  CountersOK'
<1>1. UNCHANGED <<statuses, download_pool, upload_pool>>
  BY ReadsNothing
<1>2. ASSUME NEW p \in Packet, Receive(p) PROVE CountersOK'
  BY <1>1, <1>2, PacketAt, PoolsAt, PacketFields
     DEF Inv, CountersOK, Slack, Covers, Pool, Downloads, Receive,
         FirstStatement, At
<1>3. ASSUME Free PROVE CountersOK'
  BY <1>1, <1>3, PacketAt, PoolsAt
     DEF Inv, CountersOK, Slack, Covers, Pool, Downloads, Free, Goto, At
<1>4. ASSUME LoadToUncount PROVE CountersOK'
  BY <1>1, <1>4, PacketAt, PoolsAt
     DEF Inv, CountersOK, Slack, Covers, Pool, Downloads, LoadToUncount, Load,
         At
<1>5. ASSUME Admit PROVE CountersOK'
  BY <1>1, <1>5, PacketAt, PoolsAt
     DEF Inv, CountersOK, Slack, Covers, Pool, Downloads, Admit, IsFull, Goto,
         At
<1>6. ASSUME Crash PROVE CountersOK'
  BY <1>1, <1>6, PacketAt, PoolsAt
     DEF Inv, CountersOK, Slack, Covers, Pool, Downloads, Crash, At
<1>7. ASSUME LoadToCount PROVE CountersOK'
  BY <1>1, <1>7, PacketAt, PoolsAt
     DEF Inv, CountersOK, Slack, Covers, Pool, Downloads, LoadToCount, Load,
         At
<1>8. ASSUME Ask PROVE CountersOK'
  BY <1>1, <1>8, PacketAt, PoolsAt
     DEF Inv, CountersOK, Slack, Covers, Pool, Downloads, Ask, Goto, At
<1>9. ASSUME SendDATA PROVE CountersOK'
  BY <1>1, <1>9, PacketAt, PoolsAt
     DEF Inv, CountersOK, Slack, Covers, Pool, Downloads, SendDATA, Goto, At
<1>10. ASSUME LoadNext PROVE CountersOK'
  BY <1>1, <1>10, PacketAt, PoolsAt
     DEF Inv, CountersOK, Slack, Covers, Pool, Downloads, LoadNext, Load, At
<1>11. ASSUME AllSent PROVE CountersOK'
  BY <1>1, <1>11, PacketAt, PoolsAt
     DEF Inv, CountersOK, Slack, Covers, Pool, Downloads, AllSent, Goto, At
<1>12. ASSUME Completed PROVE CountersOK'
  BY <1>1, <1>12, PacketAt, PoolsAt
     DEF Inv, CountersOK, Slack, Covers, Pool, Downloads, Completed, Goto, At
<1>13. ASSUME LoadDuplicates PROVE CountersOK'
  BY <1>1, <1>13, PacketAt, PoolsAt
     DEF Inv, CountersOK, Slack, Covers, Pool, Downloads, LoadDuplicates, Load,
         At
<1>14. ASSUME UseAfterFree, ~Crash PROVE CountersOK'
  BY <1>1, <1>14, PacketAt, PoolsAt
     DEF Inv, CountersOK, Slack, Covers, Pool, Downloads, UseAfterFree, Goto,
         At
<1> QED
  BY <1>2, <1>3, <1>4, <1>5, <1>6, <1>7, <1>8, <1>9, <1>10, <1>11, <1>12,
     <1>13, <1>14
     DEF Reads, ProvideNothing, FreedTwice

\* the timer,
LEMMA ReadsTimer ==
    ASSUME Inv, Reads
    PROVE  TimerOK'
<1>1. UNCHANGED <<statuses, download_pool, upload_pool>>
  BY ReadsNothing
<1>2. ASSUME NEW p \in Packet, Receive(p) PROVE TimerOK'
  BY <1>1, <1>2, PacketAt, PacketFields
     DEF Inv, TimerOK, Pool, Downloads, Receive, FirstStatement, At
<1>3. ASSUME Free PROVE TimerOK'
  BY <1>1, <1>3, PacketAt DEF Inv, TimerOK, Pool, Downloads, Free, Goto, At
<1>4. ASSUME LoadToUncount PROVE TimerOK'
  BY <1>1, <1>4, PacketAt
     DEF Inv, TimerOK, Pool, Downloads, LoadToUncount, Load, At
<1>5. ASSUME Admit PROVE TimerOK'
  BY <1>1, <1>5, PacketAt
     DEF Inv, TimerOK, Pool, Downloads, Admit, IsFull, Goto, At
<1>6. ASSUME Crash PROVE TimerOK'
  BY <1>1, <1>6, PacketAt DEF Inv, TimerOK, Pool, Downloads, Crash, At
<1>7. ASSUME LoadToCount PROVE TimerOK'
  BY <1>1, <1>7, PacketAt
     DEF Inv, TimerOK, Pool, Downloads, LoadToCount, Load, At
<1>8. ASSUME Ask PROVE TimerOK'
  BY <1>1, <1>8, PacketAt DEF Inv, TimerOK, Pool, Downloads, Ask, Goto, At
<1>9. ASSUME SendDATA PROVE TimerOK'
  BY <1>1, <1>9, PacketAt DEF Inv, TimerOK, Pool, Downloads, SendDATA, Goto, At
<1>10. ASSUME LoadNext PROVE TimerOK'
  BY <1>1, <1>10, PacketAt DEF Inv, TimerOK, Pool, Downloads, LoadNext, Load, At
<1>11. ASSUME AllSent PROVE TimerOK'
  BY <1>1, <1>11, PacketAt DEF Inv, TimerOK, Pool, Downloads, AllSent, Goto, At
<1>12. ASSUME Completed PROVE TimerOK'
  BY <1>1, <1>12, PacketAt
     DEF Inv, TimerOK, Pool, Downloads, Completed, Goto, At
<1>13. ASSUME LoadDuplicates PROVE TimerOK'
  BY <1>1, <1>13, PacketAt
     DEF Inv, TimerOK, Pool, Downloads, LoadDuplicates, Load, At
<1>14. ASSUME UseAfterFree, ~Crash PROVE TimerOK'
  <2>1. alarm' \in {alarm, TRUE} /\ ~Connected(Pool, pkt.peer)
    BY <1>14 DEF UseAfterFree
  <2>2. alarm => alarm'
    BY <2>1, Zenon
  <2> QED
    BY <1>1, <2>1, <2>2 DEF Inv, TimerOK
<1> QED
  BY <1>2, <1>3, <1>4, <1>5, <1>6, <1>7, <1>8, <1>9, <1>10, <1>11, <1>12,
     <1>13, <1>14
     DEF Reads, ProvideNothing, FreedTwice

\* the window that process_GET sends,
LEMMA ReadsWindow ==
    ASSUME Inv, Reads
    PROVE  WindowOK'
<1>1. UNCHANGED <<statuses, download_pool, upload_pool>>
  BY ReadsNothing
<1>2. ASSUME NEW p \in Packet, Receive(p) PROVE WindowOK'
  BY <1>1, <1>2, PacketAt, PoolsAt, ConnectionAt, PacketFields
     DEF Inv, WindowOK, Sending, Downloads, Receive, FirstStatement, At
<1>3. ASSUME Free PROVE WindowOK'
  BY <1>1, <1>3, PacketAt, PoolsAt, ConnectionAt
     DEF Inv, WindowOK, Sending, Downloads, Free, Goto, At
<1>4. ASSUME LoadToUncount PROVE WindowOK'
  BY <1>1, <1>4, PacketAt, PoolsAt, ConnectionAt
     DEF Inv, WindowOK, Sending, Downloads, LoadToUncount, Load, At
<1>5. ASSUME Admit PROVE WindowOK'
  BY <1>1, <1>5, PacketAt, PoolsAt, ConnectionAt
     DEF Inv, WindowOK, Sending, Downloads, Admit, IsFull, Goto, At
<1>6. ASSUME Crash PROVE WindowOK'
  BY <1>1, <1>6, PacketAt, PoolsAt, ConnectionAt
     DEF Inv, WindowOK, Sending, Downloads, Crash, At
<1>7. ASSUME LoadToCount PROVE WindowOK'
  BY <1>1, <1>7, PacketAt, PoolsAt, ConnectionAt
     DEF Inv, WindowOK, Sending, Downloads, LoadToCount, Load, At
<1>8. ASSUME Ask PROVE WindowOK'
  BY <1>1, <1>8, PacketAt, PoolsAt, ConnectionAt
     DEF Inv, WindowOK, Sending, Downloads, Ask, Goto, At
<1>9. ASSUME SendDATA PROVE WindowOK'
  <2>1. pc = "send" /\ pc' = "next" /\ pkt' = pkt /\ Connection.next <= Connection.available
    BY <1>9 DEF SendDATA, Goto, At
  <2>2. \A k \in Occupied(upload_pool) : Sending(k) => upload_pool.connections[k] = Connection
    BY <1>9, <2>1, SendingAt DEF SendDATA
  <2>3. \A k \in Occupied(upload_pool) : Sending(k)' <=> Sending(k)
    BY <1>1, <2>1 DEF Sending, Downloads
  <2> QED
    BY <1>1, <2>1, <2>2, <2>3, PoolsAt DEF Inv, WindowOK, UploadConnection
<1>10. ASSUME LoadNext PROVE WindowOK'
  <2>1. pc = "next" /\ pc' = "passed" /\ pkt' = pkt /\ reg' = Connection.next
    BY <1>10 DEF LoadNext, Load, At
  <2>2. \A k \in Occupied(upload_pool) : Sending(k) => upload_pool.connections[k] = Connection
    BY <1>10, <2>1, SendingAt DEF LoadNext
  <2>3. \A k \in Occupied(upload_pool) : Sending(k)' <=> Sending(k)
    BY <1>1, <2>1 DEF Sending, Downloads
  <2> QED
    BY <1>1, <2>1, <2>2, <2>3, PoolsAt DEF Inv, WindowOK, UploadConnection
<1>11. ASSUME AllSent PROVE WindowOK'
  <2>1. pc = "send" /\ pc' = "select" /\ Connection.next > Connection.available
    BY <1>11 DEF AllSent, Goto, At
  <2>2. \A k \in Occupied(upload_pool) : Sending(k) => upload_pool.connections[k] = Connection
    BY <1>11, <2>1, SendingAt DEF AllSent
  <2>3. \A k \in Occupied(upload_pool) : ~Sending(k)'
    BY <2>1 DEF Sending
  <2> QED
    BY <1>1, <2>1, <2>2, <2>3, PoolsAt DEF Inv, WindowOK, UploadConnection
<1>12. ASSUME Completed PROVE WindowOK'
  BY <1>1, <1>12, PacketAt, PoolsAt, ConnectionAt
     DEF Inv, WindowOK, Sending, Downloads, Completed, Goto, At
<1>13. ASSUME LoadDuplicates PROVE WindowOK'
  BY <1>1, <1>13, PacketAt, PoolsAt, ConnectionAt
     DEF Inv, WindowOK, Sending, Downloads, LoadDuplicates, Load, At
<1>14. ASSUME UseAfterFree, ~Crash PROVE WindowOK'
  <2>1. pc' = "select" /\ pc \notin {"select", "count", "counted"} /\ ~Connected(Pool, pkt.peer)
    BY <1>14 DEF UseAfterFree, Goto, At
  <2>2. \A k \in Occupied(upload_pool) : ~Sending(k)
    BY <2>1, SendingAt DEF Sending, Connected
  <2>3. \A k \in Occupied(upload_pool) : ~Sending(k)'
    BY <2>1 DEF Sending
  <2> QED
    BY <1>1, <2>1, <2>2, <2>3 DEF Inv, WindowOK
<1> QED
  BY <1>2, <1>3, <1>4, <1>5, <1>6, <1>7, <1>8, <1>9, <1>10, <1>11, <1>12,
     <1>13, <1>14
     DEF Reads, ProvideNothing, FreedTwice

\* the agreement of table and connections,
LEMMA ReadsTable ==
    ASSUME Inv, Reads
    PROVE  TableOK'
<1>1. UNCHANGED <<statuses, download_pool, upload_pool>>
  BY ReadsNothing
<1>2. ASSUME NEW p \in Packet, Receive(p) PROVE TableOK'
  BY <1>1, <1>2, PacketAt, PoolsAt, ConnectionAt, PacketFields
     DEF Inv, TableOK, Promised, Judged, Downloads, Receive, FirstStatement,
         At
<1>3. ASSUME Free PROVE TableOK'
  <2>1. Promised = {} /\ Promised' = {}
    BY <1>3, PacketAt DEF Free, Goto, At, Promised
  <2>2. Judged' = Judged
    BY <1>1, <1>3, PacketAt
       DEF Free, Goto, At, Judged, Downloads, Pool, Connected
  <2> QED
    BY <1>1, <2>1, <2>2 DEF Inv, TableOK
<1>4. ASSUME LoadToUncount PROVE TableOK'
  BY <1>1, <1>4, PacketAt, PoolsAt, ConnectionAt
     DEF Inv, TableOK, Promised, Judged, Downloads, LoadToUncount, Load, At
<1>5. ASSUME Admit PROVE TableOK'
  BY <1>1, <1>5, PacketAt, PoolsAt, ConnectionAt
     DEF Inv, TableOK, Promised, Judged, Downloads, Admit, IsFull, Goto, At
<1>6. ASSUME Crash PROVE TableOK'
  BY <1>1, <1>6, PacketAt, PoolsAt, ConnectionAt
     DEF Inv, TableOK, Promised, Judged, Downloads, Crash, At
<1>7. ASSUME LoadToCount PROVE TableOK'
  BY <1>1, <1>7, PacketAt, PoolsAt, ConnectionAt
     DEF Inv, TableOK, Promised, Judged, Downloads, LoadToCount, Load, At
<1>8. ASSUME Ask PROVE TableOK'
  BY <1>1, <1>8, PacketAt, PoolsAt, ConnectionAt
     DEF Inv, TableOK, Promised, Judged, Downloads, Ask, Goto, At
<1>9. ASSUME SendDATA PROVE TableOK'
  BY <1>1, <1>9, PacketAt, PoolsAt, ConnectionAt
     DEF Inv, TableOK, Promised, Judged, Downloads, SendDATA, Goto, At
<1>10. ASSUME LoadNext PROVE TableOK'
  BY <1>1, <1>10, PacketAt, PoolsAt, ConnectionAt
     DEF Inv, TableOK, Promised, Judged, Downloads, LoadNext, Load, At
<1>11. ASSUME AllSent PROVE TableOK'
  BY <1>1, <1>11, PacketAt, PoolsAt, ConnectionAt
     DEF Inv, TableOK, Promised, Judged, Downloads, AllSent, Goto, At
<1>12. ASSUME Completed PROVE TableOK'
  BY <1>1, <1>12, PacketAt, PoolsAt, ConnectionAt
     DEF Inv, TableOK, Promised, Judged, Downloads, Completed, Goto, At
<1>13. ASSUME LoadDuplicates PROVE TableOK'
  BY <1>1, <1>13, PacketAt, PoolsAt, ConnectionAt
     DEF Inv, TableOK, Promised, Judged, Downloads, LoadDuplicates, Load, At
<1>14. ASSUME UseAfterFree, ~Crash PROVE TableOK'
  BY <1>1, <1>14, PacketAt, PoolsAt, ConnectionAt
     DEF Inv, TableOK, Promised, Judged, Downloads, UseAfterFree, Goto, At
<1> QED
  BY <1>2, <1>3, <1>4, <1>5, <1>6, <1>7, <1>8, <1>9, <1>10, <1>11, <1>12,
     <1>13, <1>14
     DEF Reads, ProvideNothing, FreedTwice

\* and what save_data may rely on.
LEMMA ReadsStamped ==
    ASSUME Inv, Reads
    PROVE  StampedOK'
<1>1. UNCHANGED <<statuses, download_pool, upload_pool>>
  BY ReadsNothing
<1>2. ASSUME NEW p \in Packet, Receive(p) PROVE StampedOK'
  BY <1>1, <1>2, PacketAt, PoolsAt, PacketFields
     DEF Inv, StampedOK, Downloads, Receive, FirstStatement, At
<1>3. ASSUME Free PROVE StampedOK'
  BY <1>1, <1>3, PacketAt, PoolsAt DEF Inv, StampedOK, Downloads, Free, Goto, At
<1>4. ASSUME LoadToUncount PROVE StampedOK'
  BY <1>1, <1>4, PacketAt, PoolsAt
     DEF Inv, StampedOK, Downloads, LoadToUncount, Load, At
<1>5. ASSUME Admit PROVE StampedOK'
  BY <1>1, <1>5, PacketAt, PoolsAt
     DEF Inv, StampedOK, Downloads, Admit, IsFull, Goto, At
<1>6. ASSUME Crash PROVE StampedOK'
  BY <1>1, <1>6, PacketAt, PoolsAt DEF Inv, StampedOK, Downloads, Crash, At
<1>7. ASSUME LoadToCount PROVE StampedOK'
  BY <1>1, <1>7, PacketAt, PoolsAt
     DEF Inv, StampedOK, Downloads, LoadToCount, Load, At
<1>8. ASSUME Ask PROVE StampedOK'
  BY <1>1, <1>8, PacketAt, PoolsAt DEF Inv, StampedOK, Downloads, Ask, Goto, At
<1>9. ASSUME SendDATA PROVE StampedOK'
  BY <1>1, <1>9, PacketAt, PoolsAt
     DEF Inv, StampedOK, Downloads, SendDATA, Goto, At
<1>10. ASSUME LoadNext PROVE StampedOK'
  BY <1>1, <1>10, PacketAt, PoolsAt
     DEF Inv, StampedOK, Downloads, LoadNext, Load, At
<1>11. ASSUME AllSent PROVE StampedOK'
  BY <1>1, <1>11, PacketAt, PoolsAt
     DEF Inv, StampedOK, Downloads, AllSent, Goto, At
<1>12. ASSUME Completed PROVE StampedOK'
  BY <1>1, <1>12, PacketAt, PoolsAt
     DEF Inv, StampedOK, Downloads, Completed, Goto, At
<1>13. ASSUME LoadDuplicates PROVE StampedOK'
  BY <1>1, <1>13, PacketAt, PoolsAt
     DEF Inv, StampedOK, Downloads, LoadDuplicates, Load, At
<1>14. ASSUME UseAfterFree, ~Crash PROVE StampedOK'
  BY <1>1, <1>14, PacketAt, PoolsAt
     DEF Inv, StampedOK, Downloads, UseAfterFree, Goto, At
<1> QED
  BY <1>2, <1>3, <1>4, <1>5, <1>6, <1>7, <1>8, <1>9, <1>10, <1>11, <1>12,
     <1>13, <1>14
     DEF Reads, ProvideNothing, FreedTwice

-----------------------------------------------------------------------------
(* Statements that write to the pool of the handler. *)

\* What the pool of the handler holds.
Kind == IF Downloads THEN DownloadConnection ELSE UploadConnection

\* It holds a pool with one connection per peer.
LEMMA PoolAt ==
    ASSUME Inv
    PROVE  /\ max_conn \in Nat /\ NULL \notin Kind
           /\ Pool \in PoolOf(max_conn, Kind)
           /\ OneEach(Pool)
           /\ Pool.size \in Int /\ Cardinality(Occupied(Pool)) \in Nat
<1>1. CASE Downloads
  BY <1>1, PoolsAt DEF Inv, CountersOK, Pool, Kind
<1>2. CASE ~Downloads
  BY <1>2, PoolsAt DEF Inv, CountersOK, Pool, Kind
<1> QED
  BY <1>1, <1>2

\* The counter of the handler's pool and its slots, between its statements.
LEMMA CounterAt ==
    ASSUME Inv, pc # "select"
    PROVE  Covers(Pool.size, Pool, Slack(pc))
<1>1. CASE Downloads
  BY <1>1 DEF Inv, CountersOK, Pool
<1>2. CASE ~Downloads
  BY <1>2 DEF Inv, CountersOK, Pool
<1> QED
  BY <1>1, <1>2

\* A statement of the middle of a handler changes its pool, and no other.
LEMMA SetPoolTo ==
    ASSUME Inv, pc # "select", pc' # "select", pkt' = pkt,
           NEW pool \in PoolOf(max_conn, Kind), SetPool(pool)
    PROVE  /\ Downloads' = Downloads /\ Pool' = pool
           /\ download_pool' \in PoolOf(max_conn, DownloadConnection)
           /\ upload_pool' \in PoolOf(max_conn, UploadConnection)
           /\ Downloads => UNCHANGED upload_pool
           /\ ~Downloads => UNCHANGED download_pool
  BY DEF Inv, TypeOK, SetPool, Downloads, Pool, Kind

\* The counters stay right if the counter of the new pool is.
LEMMA SetPoolCounters ==
    ASSUME Inv, pc # "select", pc' # "select", pkt' = pkt,
           NEW pool \in PoolOf(max_conn, Kind), SetPool(pool),
           OneEach(pool), Covers(pool.size, pool, Slack(pc')),
           pc' \in {"counted", "uncounted"} => Covers(reg', pool, Slack(pc')),
           pc' \notin {"provide", "add", "freed"},
           pc' \in {"admit", "uncount", "uncounted"} => ~Connected(pool, pkt.peer)
    PROVE  CountersOK'
<1>1. /\ Downloads' = Downloads /\ Pool' = pool
      /\ Downloads => UNCHANGED upload_pool
      /\ ~Downloads => UNCHANGED download_pool
  BY SetPoolTo
<1>2. CASE Downloads
  BY <1>1, <1>2 DEF Inv, CountersOK, SetPool
<1>3. CASE ~Downloads
  BY <1>1, <1>3 DEF Inv, CountersOK, SetPool
<1> QED
  BY <1>2, <1>3

\* size++ and size-- store what they have loaded.
LEMMA Counts ==
    ASSUME Inv, Uncount \/ Count
    PROVE  Inv'
<1> DEFINE size == IF pc = "counted" THEN reg + 1 ELSE reg - 1
           new == [Pool EXCEPT !.size = size]
<1>1. /\ pc \in {"counted", "uncounted"}
      /\ pc = "uncounted" => pc' = IF pkt.type = "GET" THEN "admit" ELSE "completed"
      /\ pc = "counted" => pc' = IF pkt.type = "GET" THEN "send" ELSE "asked"
      /\ pkt' = pkt /\ reg' = 0 /\ signals' = signals
      /\ UNCHANGED <<statuses, alarm>>
      /\ SetPool(new)
  BY DEF Uncount, Count, Goto, At
<1>2. size \in Int /\ pc # "select" /\ pc' # "select"
  BY <1>1 DEF Inv, TypeOK
<1>3. /\ new \in PoolOf(max_conn, Kind)
      /\ new.size = size
      /\ new.connections = Pool.connections
      /\ Occupied(new) = Occupied(Pool)
      /\ OneEach(new)
      /\ \A t : SlotsOf(new, t) = SlotsOf(Pool, t)
  BY <1>2, PoolAt, Recounted
<1> HIDE DEF new, size
<1>4. /\ Downloads' = Downloads /\ Pool' = new
      /\ download_pool' \in PoolOf(max_conn, DownloadConnection)
      /\ upload_pool' \in PoolOf(max_conn, UploadConnection)
      /\ Downloads => UNCHANGED upload_pool
      /\ ~Downloads => UNCHANGED download_pool
  BY <1>1, <1>2, <1>3, SetPoolTo
<1>5. /\ download_pool'.connections = download_pool.connections
      /\ upload_pool'.connections = upload_pool.connections
      /\ Occupied(download_pool') = Occupied(download_pool)
      /\ Occupied(upload_pool') = Occupied(upload_pool)
      /\ \A t : SlotsOf(download_pool', t) = SlotsOf(download_pool, t)
      /\ \A t : SlotsOf(upload_pool', t) = SlotsOf(upload_pool, t)
  <2>1. CASE Downloads
    BY <1>3, <1>4, <2>1 DEF Pool
  <2>2. CASE ~Downloads
    BY <1>3, <1>4, <2>2 DEF Pool
  <2> QED
    BY <2>1, <2>2
<1>6. TypeOK'
  BY <1>1, <1>2, <1>4, PacketAt DEF Inv, TypeOK, StatementsOf
<1>7. CountersOK'
  <2>1. Covers(reg, Pool, Slack(pc)) /\ Cardinality(Occupied(Pool)) \in Nat /\ reg \in Int
    BY <1>1, PoolAt DEF Inv, CountersOK, TypeOK
  <2>2. Covers(new.size, new, Slack(pc'))
    BY <1>1, <1>2, <1>3, <2>1 DEF Covers, Slack, size
  <2>3. pc' = "admit" => ~Connected(new, pkt.peer)
    BY <1>1, <1>3 DEF Inv, CountersOK, Connected
  <2> QED
    BY <1>1, <1>2, <1>3, <2>2, <2>3, PacketAt, SetPoolCounters
<1>8. TimerOK'
  BY <1>1, <1>3, <1>4, <1>5, PacketAt DEF Inv, TimerOK, Connected
<1>9. WindowOK'
  BY <1>1, <1>4, <1>5, PacketAt DEF Inv, WindowOK, Sending, Downloads
<1>10. TableOK'
  BY <1>1, <1>4, <1>5, PacketAt DEF Inv, TableOK, Promised, Judged
<1>11. StampedOK'
  BY <1>1 DEF StampedOK
<1> QED
  BY <1>6, <1>7, <1>8, <1>9, <1>10, <1>11 DEF Inv

\* The slot of a freed connection is cleared.
LEMMA Clears ==
    ASSUME Inv, ClearSlot
    PROVE  Inv'
<1> DEFINE mine == SlotsOf(Pool, pkt.peer)
           new == [connections |->
                      [Pool.connections EXCEPT ![Min(mine)] = NULL],
                   size |-> Pool.size]
<1>1. /\ pc = "freed" /\ pc' = "uncount" /\ pkt' = pkt
      /\ reg' = 0 /\ signals' = signals
      /\ UNCHANGED <<statuses, alarm>>
      /\ SetPool(Update(Pool, pkt.peer, NULL))
  BY DEF ClearSlot, SetConnection, Goto, At
<1>2. Connected(Pool, pkt.peer) /\ Pool.size \in Int
  BY <1>1, PoolAt DEF Inv, CountersOK
<1>3. /\ new \in PoolOf(max_conn, Kind)
      /\ Occupied(new) = Occupied(Pool) \ mine
      /\ \A k \in Occupied(new) : new.connections[k] = Pool.connections[k]
      /\ OneEach(new)
      /\ Cardinality(Occupied(new)) = Cardinality(Occupied(Pool)) - 1
      /\ \A t : SlotsOf(new, t) = SlotsOf(Pool, t) \ mine
  BY <1>2, PoolAt, Cleared
<1>4. new = Update(Pool, pkt.peer, NULL) /\ new.size = Pool.size
  BY PoolAt, UpdateForm
<1> HIDE DEF new
<1>5. /\ Downloads' = Downloads /\ Pool' = new
      /\ download_pool' \in PoolOf(max_conn, DownloadConnection)
      /\ upload_pool' \in PoolOf(max_conn, UploadConnection)
      /\ Downloads => UNCHANGED upload_pool
      /\ ~Downloads => UNCHANGED download_pool
  BY <1>1, <1>3, <1>4, SetPoolTo
<1>6. TypeOK'
  BY <1>1, <1>5, PacketAt DEF Inv, TypeOK, StatementsOf
<1>7. CountersOK'
  <2>1. Covers(new.size, new, Slack(pc'))
    BY <1>1, <1>3, <1>4, CounterAt, PoolAt DEF Covers, Slack
  <2>2. ~Connected(new, pkt.peer)
    BY <1>3 DEF Connected
  <2> QED
    BY <1>1, <1>3, <1>4, <2>1, <2>2, SetPoolCounters
<1>8. TimerOK'
  <2>1. /\ Occupied(download_pool') \subseteq Occupied(download_pool)
        /\ Occupied(upload_pool') \subseteq Occupied(upload_pool)
    BY <1>3, <1>5 DEF Pool
  <2> QED
    BY <1>1, <2>1 DEF Inv, TimerOK
<1>9. WindowOK'
  <2>1. ~Downloads => upload_pool' = new /\ upload_pool = Pool
    BY <1>5 DEF Pool
  <2>2. \A k \in Occupied(upload_pool') :
          /\ k \in Occupied(upload_pool)
          /\ upload_pool'.connections[k] = upload_pool.connections[k]
    BY <1>3, <1>5, <2>1
  <2>3. \A k : ~Sending(k) /\ ~Sending(k)'
    BY <1>1 DEF Sending
  <2> QED
    BY <1>1, <2>2, <2>3 DEF Inv, WindowOK
<1>10. TableOK'
  <2>1. Downloads => /\ download_pool' = new /\ download_pool = Pool
                     /\ Judged = mine
    BY <1>1, <1>5 DEF Pool, Judged
  <2>2. Promised = {} /\ Promised' = {} /\ Judged' = {}
    BY <1>1 DEF Promised, Judged
  <2>3. ~Downloads => Judged = {} /\ download_pool' = download_pool
    BY <1>5 DEF Judged
  <2>4. /\ Occupied(download_pool') = Occupied(download_pool) \ Judged
        /\ \A k \in Occupied(download_pool') :
            download_pool'.connections[k] = download_pool.connections[k]
    BY <1>3, <2>1, <2>3
  <2> QED
    BY <1>1, <2>2, <2>4 DEF Inv, TableOK
<1>11. StampedOK'
  BY <1>1 DEF StampedOK
<1> QED
  BY <1>6, <1>7, <1>8, <1>9, <1>10, <1>11 DEF Inv

\* What process_IHAVE and process_GET add is a connection with the sender,
\* for the chunk update_provider has marked.
LEMMA NewConnectionAt ==
    ASSUME Inv, pc = "add"
    PROVE  /\ NewConnection \in Kind /\ NewConnection.peer = pkt.peer
           /\ Downloads => Promised = {NewConnection.sha1}
           /\ ~Downloads => /\ NewConnection.available
                               = Available(NewConnection.last_acked)
                            /\ NewConnection.next = 1
                            /\ NewConnection.available \in Nat
<1>1. pkt.peer \in Peer /\ pkt.type \in {"IHAVE", "GET"}
  BY PacketAt DEF Inv
<1>2. CASE pkt.type = "GET"
  <2>1. NewConnection = NewUpload(pkt.peer, NULL) /\ ~Downloads
    BY <1>2 DEF NewConnection, Downloads
  <2>2. WINDOW \in 1 .. CHUNK_SIZE /\ CHUNK_SIZE \in Nat \ {0}
    BY WINDOW_Assumption, CHUNK_SIZE_Assumption
  <2>3. NewConnection \in UploadConnection
    BY <1>1, <2>1, <2>2 DEF NewUpload, UploadConnection
  <2> QED
    BY <2>1, <2>2, <2>3 DEF NewUpload, Available, Kind
<1>3. CASE pkt.type = "IHAVE"
  <2>1. PICK h \in Hash : pkt.chunks = {h}
    BY <1>3 DEF Inv, TypeOK
  <2>2. NewConnection = NewDownload(pkt.peer, h) /\ Downloads
    <3>1. (CHOOSE x \in {h} : TRUE) = h
      OBVIOUS
    <3> QED
      BY <1>3, <2>1, <3>1 DEF NewConnection, Downloads
  <2>3. NewConnection \in DownloadConnection
    BY <1>1, <2>2 DEF NewDownload, DownloadConnection
  <2> QED
    BY <2>1, <2>2, <2>3 DEF NewDownload, Promised, Kind
<1> QED
  BY <1>1, <1>2, <1>3

\* The new connection is put into a free slot, which exists.
LEMMA Fills ==
    ASSUME Inv, FillSlot
    PROVE  Inv'
<1> DEFINE f == Min(FreeSlots(Pool))
           c == NewConnection
           size == Pool.size
           new == [AddTo(Pool, c) EXCEPT !.size = size]
<1>1. /\ pc = "add" /\ pc' = "count" /\ pkt' = pkt
      /\ reg' = 0 /\ signals' = signals
      /\ UNCHANGED <<statuses, alarm>>
      /\ SetPool(new)
  BY DEF FillSlot, Goto, At
<1>2. /\ c \in Kind /\ c.peer = pkt.peer
      /\ Downloads => Promised = {c.sha1}
      /\ ~Downloads => /\ c.available = Available(c.last_acked)
                       /\ c.next = 1 /\ c.available \in Nat
  BY <1>1, NewConnectionAt
<1>3. Cardinality(Occupied(Pool)) < max_conn /\ ~Connected(Pool, c.peer)
  BY <1>1, <1>2 DEF Inv, CountersOK
<1> HIDE DEF c
<1>4. /\ new \in PoolOf(max_conn, Kind)
      /\ f \notin Occupied(Pool)
      /\ Occupied(new) = Occupied(Pool) \cup {f}
      /\ new.connections[f] = c
      /\ \A k \in Occupied(Pool) : new.connections[k] = Pool.connections[k]
      /\ OneEach(new)
      /\ Cardinality(Occupied(new)) = Cardinality(Occupied(Pool)) + 1
  <2>1. size \in Int
    BY PoolAt
  <2> HIDE DEF size
  <2> QED
    BY <1>2, <1>3, <2>1, PoolAt, Filled
<1>5. new.size = Pool.size
  BY <1>2, PoolAt, AddToType DEF PoolOf
<1> HIDE DEF new, f
<1>6. /\ Downloads' = Downloads /\ Pool' = new
      /\ download_pool' \in PoolOf(max_conn, DownloadConnection)
      /\ upload_pool' \in PoolOf(max_conn, UploadConnection)
      /\ Downloads => UNCHANGED upload_pool
      /\ ~Downloads => UNCHANGED download_pool
  BY <1>1, <1>4, SetPoolTo
<1>7. TypeOK'
  BY <1>1, <1>6, PacketAt DEF Inv, TypeOK, StatementsOf
<1>8. CountersOK'
  <2>1. Covers(new.size, new, Slack(pc'))
    BY <1>1, <1>4, <1>5, CounterAt, PoolAt DEF Covers, Slack
  <2> QED
    BY <1>1, <1>4, <2>1, SetPoolCounters
<1>9. TimerOK'
  <2>1. Connected(Pool', pkt'.peer)
    BY <1>1, <1>2, <1>4, <1>6 DEF Connected, SlotsOf
  <2> QED
    BY <1>1, <2>1 DEF TimerOK
<1>10. WindowOK'
  <2>1. CASE Downloads
    BY <1>1, <1>6, <2>1 DEF Inv, WindowOK, Sending
  <2>2. CASE ~Downloads
    <3>1. upload_pool' = new /\ upload_pool = Pool
      BY <1>6, <2>2 DEF Pool
    <3>2. \A k \in Occupied(upload_pool) : ~Sending(k)
      BY <1>1 DEF Sending
    <3>3. \A k \in Occupied(upload_pool)' : k = f => Sending(k)'
      <4>1. upload_pool'.connections[f].peer = pkt'.peer
        BY <1>1, <1>2, <1>4, <3>1
      <4>2. ~Downloads' /\ pc' = "count"
        BY <1>1, <1>6, <2>2
      <4> QED
        BY <4>1, <4>2 DEF Sending
    <3>4. \A k \in Occupied(upload_pool) : k \in Occupied(upload_pool)' /\ k # f
          /\ upload_pool'.connections[k] = upload_pool.connections[k]
      BY <1>4, <3>1
    <3>5. c.next <= c.available + 2
      BY <1>2, <2>2
    <3>6. Occupied(upload_pool)' = Occupied(upload_pool) \cup {f}
          /\ upload_pool'.connections[f] = c
      BY <1>4, <3>1
    <3>7. pc' = "count"
      BY <1>1
    <3>8. \A k \in Occupied(upload_pool)' :
            LET d == upload_pool'.connections[k]
            IN  /\ d.available = Available(d.last_acked)
                /\ d.next <= d.available + 2
                /\ ~Sending(k)' => d.next > d.available
      BY <1>2, <2>2, <3>2, <3>3, <3>4, <3>5, <3>6 DEF Inv, WindowOK
    <3> QED
      BY <3>7, <3>8 DEF WindowOK
  <2> QED
    BY <2>1, <2>2
<1>11. TableOK'
  <2>1. Judged = {} /\ Judged' = {} /\ Promised' = {}
    BY <1>1 DEF Judged, Promised
  <2>2. CASE Downloads
    <3>1. download_pool' = new /\ download_pool = Pool
      BY <1>6, <2>2 DEF Pool
    <3>2. /\ Occupied(download_pool)' = Occupied(download_pool) \cup {f}
          /\ f \notin Occupied(download_pool)
          /\ download_pool'.connections[f] = c
          /\ \A k \in Occupied(download_pool) :
              download_pool'.connections[k] = download_pool.connections[k]
      BY <1>4, <3>1
    <3>3. \A k \in Occupied(download_pool) :
            download_pool.connections[k].sha1 # c.sha1
      BY <1>2, <2>2 DEF Inv, TableOK
    <3>4. \A h \in Hash : statuses[h] = "DOWNLOADING"
            <=> h = c.sha1 \/ \E k \in Occupied(download_pool) :
                                 download_pool.connections[k].sha1 = h
      BY <1>2, <2>1, <2>2 DEF Inv, TableOK
    <3>5. \A j, k \in Occupied(download_pool)' :
            download_pool'.connections[j].sha1 = download_pool'.connections[k].sha1
            => j = k
      BY <3>2, <3>3 DEF Inv, TableOK
    <3>6. \A h \in Hash : statuses[h] = "DOWNLOADING"
            <=> \E k \in Occupied(download_pool)' :
                   download_pool'.connections[k].sha1 = h
      BY <3>2, <3>4
    <3> QED
      BY <1>1, <2>1, <3>5, <3>6 DEF TableOK
  <2>3. CASE ~Downloads
    BY <1>1, <1>6, <2>1, <2>3 DEF Inv, TableOK, Promised
  <2> QED
    BY <2>2, <2>3
<1>12. StampedOK'
  BY <1>1 DEF StampedOK
<1> QED
  BY <1>7, <1>8, <1>9, <1>10, <1>11, <1>12 DEF Inv

\* The ACK of the last packet closes the connection of its sender.
LEMMA Closes ==
    ASSUME Inv, CloseUpload
    PROVE  Inv'
<1> DEFINE q == pkt.peer
           new == RemoveFrom(upload_pool, q)
<1>1. /\ pc = "acknowledge" /\ pc' = "select" /\ reg' = 0 /\ signals' = 0
      /\ alarm' = TRUE /\ upload_pool' = new
      /\ UNCHANGED <<statuses, download_pool>>
  BY DEF CloseUpload, Goto, At
<1>2. ~Downloads /\ Pool = upload_pool
  BY <1>1, PacketAt DEF Inv, Downloads, Pool
<1>3. OneEach(upload_pool) /\ Covers(upload_pool.size, upload_pool, 0)
  BY <1>1, <1>2 DEF Inv, CountersOK, Slack
<1>4. /\ new \in PoolOf(max_conn, UploadConnection)
      /\ Occupied(new) \subseteq Occupied(upload_pool)
      /\ \A k \in Occupied(new) :
           new.connections[k] = upload_pool.connections[k]
      /\ OneEach(new)
      /\ Covers(new.size, new, 0)
  <2>1. CASE ~Connected(upload_pool, q)
    BY <1>3, <2>1, PoolsAt DEF Inv, RemoveFrom
  <2>2. CASE Connected(upload_pool, q)
    <3> DEFINE size == upload_pool.size - 1
               cleared == [connections |-> [upload_pool.connections EXCEPT
                                               ![Min(SlotsOf(upload_pool, q))] = NULL],
                           size |-> size]
    <3>1. new = cleared
      BY <2>2 DEF RemoveFrom
    <3>2. size \in Int
      BY PoolsAt DEF Inv
    <3> HIDE DEF size
    <3>3. /\ cleared \in PoolOf(max_conn, UploadConnection)
          /\ Occupied(cleared) = Occupied(upload_pool) \ SlotsOf(upload_pool, q)
          /\ \A k \in Occupied(cleared) :
               cleared.connections[k] = upload_pool.connections[k]
          /\ OneEach(cleared)
          /\ Cardinality(Occupied(cleared)) = Cardinality(Occupied(upload_pool)) - 1
      BY <1>3, <2>2, <3>2, PoolsAt, Cleared DEF Inv
    <3>4. cleared.size = size
      OBVIOUS
    <3> HIDE DEF cleared
    <3>5. Covers(cleared.size, cleared, 0)
      BY <1>3, <3>3, <3>4, PoolsAt DEF Inv, Covers, size
    <3> QED
      BY <3>1, <3>3, <3>5
  <2> QED
    BY <2>1, <2>2
<1> HIDE DEF new
<1>5. TypeOK'
  BY <1>1, <1>4 DEF Inv, TypeOK
<1>6. CountersOK'
  <2>1. OneEach(download_pool) /\ Covers(download_pool.size, download_pool, 0)
    BY <1>2 DEF Inv, CountersOK
  <2> QED
    BY <1>1, <1>4, <2>1 DEF CountersOK
<1>7. TimerOK'
  BY <1>1 DEF TimerOK
<1>8. WindowOK'
  <2>1. \A k : ~Sending(k) /\ ~Sending(k)'
    BY <1>1 DEF Sending
  <2> QED
    BY <1>1, <1>4, <2>1 DEF Inv, WindowOK
<1>9. TableOK'
  BY <1>1 DEF Inv, TableOK, Promised, Judged
<1>10. StampedOK'
  BY <1>1 DEF StampedOK
<1> QED
  BY <1>5, <1>6, <1>7, <1>8, <1>9, <1>10 DEF Inv

-----------------------------------------------------------------------------
(* Statements that write to the connection the handler has found. *)

\* The pools after a write through the pointer of the handler.
LEMMA WritesPools ==
    ASSUME Inv, pc # "select", Connected(Pool, pkt.peer), NEW c \in Kind,
           c.peer = pkt.peer, SetConnection(c)
    PROVE  /\ download_pool' \in PoolOf(max_conn, DownloadConnection)
           /\ upload_pool' \in PoolOf(max_conn, UploadConnection)
           /\ download_pool'.size = download_pool.size
           /\ upload_pool'.size = upload_pool.size
           /\ Occupied(download_pool') = Occupied(download_pool)
           /\ Occupied(upload_pool') = Occupied(upload_pool)
           /\ OneEach(download_pool') /\ OneEach(upload_pool')
           /\ \A t : SlotsOf(download_pool', t) = SlotsOf(download_pool, t)
           /\ \A t : SlotsOf(upload_pool', t) = SlotsOf(upload_pool, t)
           /\ Downloads =>
                /\ UNCHANGED upload_pool
                /\ \A k \in Occupied(download_pool) :
                    download_pool'.connections[k] =
                        IF k \in SlotsOf(download_pool, pkt.peer) THEN c
                        ELSE download_pool.connections[k]
           /\ ~Downloads =>
                /\ UNCHANGED download_pool
                /\ \A k \in Occupied(upload_pool) :
                    upload_pool'.connections[k] =
                        IF k \in SlotsOf(upload_pool, pkt.peer) THEN c
                        ELSE upload_pool.connections[k]
<1> DEFINE new == Update(Pool, pkt.peer, c)
<1>1. /\ new \in PoolOf(max_conn, Kind)
      /\ new.size = Pool.size
      /\ Occupied(new) = Occupied(Pool)
      /\ OneEach(new)
      /\ \A k \in Occupied(Pool) :
           new.connections[k] = IF k \in SlotsOf(Pool, pkt.peer) THEN c
                                ELSE Pool.connections[k]
      /\ \A t : SlotsOf(new, t) = SlotsOf(Pool, t)
  BY PoolAt, Written
<1>2. OneEach(download_pool) /\ OneEach(upload_pool)
  BY DEF Inv, CountersOK
<1> HIDE DEF new
<1>3. CASE Downloads
  <2>1. download_pool' = new /\ upload_pool' = upload_pool /\ Pool = download_pool
    BY <1>3 DEF SetConnection, SetPool, new, Pool
  <2> QED
    BY <1>1, <1>2, <1>3, <2>1, PoolsAt DEF Inv, Kind
<1>4. CASE ~Downloads
  <2>1. upload_pool' = new /\ download_pool' = download_pool /\ Pool = upload_pool
    BY <1>4 DEF SetConnection, SetPool, new, Pool
  <2> QED
    BY <1>1, <1>2, <1>4, <2>1, PoolsAt DEF Inv, Kind
<1> QED
  BY <1>3, <1>4

\* Where neither a counter nor a slot is behind.
LEMMA PlainCounters ==
    ASSUME Inv,
           pc \notin {"count", "counted", "uncount", "uncounted"},
           pc' \in {"select", "stamp", "save", "send", "retransmit"},
           download_pool'.size = download_pool.size,
           upload_pool'.size = upload_pool.size,
           Occupied(download_pool') = Occupied(download_pool),
           Occupied(upload_pool') = Occupied(upload_pool),
           OneEach(download_pool') /\ OneEach(upload_pool')
    PROVE  CountersOK'
  BY DEF Inv, CountersOK, Covers, Slack

\* A write by process_ACK that leaves a window that was sent.
LEMMA WritesUpload ==
    ASSUME Inv, pc \in {"acknowledge", "duplicate", "retransmit"},
           Connected(upload_pool, pkt.peer),
           NEW c \in UploadConnection, c.peer = pkt.peer, SetConnection(c),
           c.available = Available(c.last_acked),
           c.next \in {c.available + 1, c.available + 2},
           pc' \in {"select", "retransmit"}, pc' # "select" => pkt' = pkt,
           reg' = 0, signals' \in Nat,
           alarm' = TRUE \/ alarm' = alarm, UNCHANGED statuses
    PROVE  Inv'
<1>1. ~Downloads /\ Pool = upload_pool /\ pkt.type = "ACK" /\ pkt \in Packet
  BY PacketAt DEF Inv, Downloads, Pool
<1>2. /\ upload_pool' \in PoolOf(max_conn, UploadConnection)
      /\ download_pool' = download_pool
      /\ download_pool'.size = download_pool.size
      /\ upload_pool'.size = upload_pool.size
      /\ Occupied(download_pool') = Occupied(download_pool)
      /\ Occupied(upload_pool') = Occupied(upload_pool)
      /\ OneEach(download_pool') /\ OneEach(upload_pool')
      /\ \A k \in Occupied(upload_pool) :
          upload_pool'.connections[k] =
              IF k \in SlotsOf(upload_pool, pkt.peer) THEN c
              ELSE upload_pool.connections[k]
  BY <1>1, WritesPools DEF Kind
<1>3. TypeOK'
  <2>1. alarm' \in BOOLEAN
    BY Zenon DEF Inv, TypeOK
  <2> QED
    BY <1>1, <1>2, <2>1 DEF Inv, TypeOK, StatementsOf
<1>4. CountersOK'
  BY <1>2, PlainCounters
<1>5. TimerOK'
  <2>1. alarm => alarm'
    BY Zenon
  <2> QED
    BY <1>2, <2>1 DEF Inv, TimerOK
<1>6. WindowOK'
  <2>1. \A k : ~Sending(k) /\ ~Sending(k)'
    BY DEF Sending
  <2> QED
    BY <1>2, <2>1 DEF Inv, WindowOK, UploadConnection
<1>7. TableOK'
  BY <1>2 DEF Inv, TableOK, Promised, Judged
<1>8. StampedOK'
  BY DEF StampedOK
<1> QED
  BY <1>3, <1>4, <1>5, <1>6, <1>7, <1>8 DEF Inv

\* An ACK that changes nothing.
LEMMA Passes ==
    ASSUME Inv, pc \in {"acknowledge", "retransmit"}, pc' = "select",
           reg' = 0, signals' = 0,
           UNCHANGED <<statuses, download_pool, upload_pool, alarm>>
    PROVE  Inv'
<1>1. TypeOK'
  BY DEF Inv, TypeOK
<1>2. CountersOK'
  BY PlainCounters DEF Inv, CountersOK
<1>3. TimerOK' /\ StampedOK'
  BY DEF Inv, TimerOK, StampedOK
<1>4. WindowOK'
  BY DEF Inv, WindowOK, Sending
<1>5. TableOK'
  BY DEF Inv, TableOK, Promised, Judged
<1> QED
  BY <1>1, <1>2, <1>3, <1>4, <1>5 DEF Inv

\* The connection an ACK is for.
LEMMA AckedConnection ==
    ASSUME Inv, pc \in {"acknowledge", "duplicate", "retransmit"},
           Connected(upload_pool, pkt.peer)
    PROVE  /\ ~Downloads /\ Pool = upload_pool
           /\ Connection \in UploadConnection /\ Connection.peer = pkt.peer
           /\ Connection.available = Available(Connection.last_acked)
           /\ Connection.next \in {Connection.available + 1, Connection.available + 2}
<1>1. ~Downloads /\ Pool = upload_pool
  BY PacketAt DEF Inv, Downloads, Pool
<1>2. /\ Connection \in UploadConnection /\ Connection.peer = pkt.peer
      /\ \A k \in SlotsOf(upload_pool, pkt.peer) :
          upload_pool.connections[k] = Connection
  BY <1>1, ConnectionAt
<1>3. PICK k \in SlotsOf(upload_pool, pkt.peer) : TRUE
  BY DEF Connected
<1>4. k \in Occupied(upload_pool) /\ ~Sending(k)
  BY DEF SlotsOf, Sending
<1>5. /\ Connection.available = Available(Connection.last_acked)
      /\ Connection.next <= Connection.available + 2
      /\ Connection.next > Connection.available
  BY <1>2, <1>3, <1>4 DEF Inv, WindowOK
<1>6. Connection.next \in Int /\ Connection.available \in Int
  BY <1>2 DEF UploadConnection
<1> QED
  BY <1>1, <1>2, <1>5, <1>6

\* The window ends within the chunk, and it moves forward only.
LEMMA WindowEnd ==
    ASSUME NEW n \in 0 .. CHUNK_SIZE - 1
    PROVE  /\ Available(n) \in n + 1 .. CHUNK_SIZE
           /\ \A m \in 0 .. n : Available(m) <= Available(n)
  BY CHUNK_SIZE_Assumption, WINDOW_Assumption DEF Available

\* Going back to what is not acknowledged and sending again.
LEMMA SentAgain ==
    ASSUME NEW c \in UploadConnection
    PROVE  /\ Sent(Rewound(c)) \in UploadConnection
           /\ Sent(Rewound(c)).peer = c.peer
           /\ Sent(Rewound(c)).last_acked = c.last_acked
           /\ Sent(Rewound(c)).available = Available(Sent(Rewound(c)).last_acked)
           /\ Sent(Rewound(c)).next = Sent(Rewound(c)).available + 1
<1> DEFINE d == Rewound(c)
<1>1. c.last_acked \in 0 .. CHUNK_SIZE - 1 /\ CHUNK_SIZE \in Nat
  BY CHUNK_SIZE_Assumption DEF UploadConnection
<1>2. /\ Available(c.last_acked) \in 1 .. CHUNK_SIZE
      /\ Available(c.last_acked) > c.last_acked
      /\ c.last_acked + 1 \in Int
  BY <1>1, WindowEnd
<1>3. /\ d \in UploadConnection /\ d.peer = c.peer
      /\ d.last_acked = c.last_acked
      /\ d.next = c.last_acked + 1
      /\ d.available = Available(c.last_acked)
  <2> DEFINE a == Available(c.last_acked)
             n == c.last_acked + 1
             zero == 0
  <2>1. a \in 1 .. CHUNK_SIZE /\ n \in Int /\ zero \in Int
    BY <1>2
  <2>2. d = [c EXCEPT !.next = n, !.duplicate_num = zero, !.available = a]
    BY DEF Rewound
  <2> HIDE DEF a, n, d, zero
  <2>3. d \in UploadConnection /\ d.peer = c.peer /\ d.last_acked = c.last_acked
        /\ d.next = n /\ d.available = a
    BY <2>1, <2>2, CHUNK_SIZE_Assumption DEF UploadConnection
  <2> QED
    BY <2>3 DEF a, n
<1> HIDE DEF d
<1>4. /\ Sent(d) = [d EXCEPT !.next = d.available + 1]
      /\ d.available + 1 \in Int
  BY <1>1, <1>2, <1>3 DEF Sent
<1> QED
  BY <1>3, <1>4 DEF UploadConnection, d

\* process_ACK moves the window, with the signal held off by alarm(0),
LEMMA Acknowledges ==
    ASSUME Inv, Acknowledge
    PROVE  Inv'
<1> DEFINE ack == pkt.ack_num
           moved == [Connection EXCEPT
                        !.last_acked = ack, !.duplicate_num = 0,
                        !.overtime_count = 0, !.available = Available(ack)]
<1>1. /\ pc = "acknowledge" /\ pc' = "select" /\ reg' = 0 /\ signals' = 0
      /\ Connected(upload_pool, pkt.peer) /\ ack # CHUNK_SIZE
      /\ UNCHANGED statuses
  BY DEF Acknowledge, Goto, At
<1>2. CASE UNCHANGED <<upload_pool, download_pool, alarm>>
  BY <1>1, <1>2, Passes
<1>3. CASE /\ ack > Connection.last_acked
           /\ SetConnection(Sent(moved)) /\ alarm' = TRUE
  <2>1. ack \in 0 .. CHUNK_SIZE - 1
    BY <1>1, PacketAt, PacketFields, CHUNK_SIZE_Assumption DEF Inv
  <2>2. /\ Connection \in UploadConnection /\ Connection.peer = pkt.peer
        /\ Connection.available = Available(Connection.last_acked)
        /\ Connection.next \in {Connection.available + 1, Connection.available + 2}
    BY <1>1, AckedConnection
  <2>3. /\ Connection.last_acked \in 0 .. ack
        /\ Connection.next \in Int
    BY <1>3, <2>1, <2>2 DEF UploadConnection
  <2>4. /\ Available(Connection.last_acked) <= Available(ack)
        /\ Available(ack) \in 1 .. CHUNK_SIZE
    BY <2>1, <2>3, WindowEnd, CHUNK_SIZE_Assumption
  <2>5. /\ moved \in UploadConnection /\ moved.peer = pkt.peer
        /\ moved.last_acked = ack /\ moved.available = Available(ack)
        /\ moved.next = Connection.next
    <3> DEFINE a == Available(ack)
               zero == 0
    <3>1. /\ a \in 1 .. CHUNK_SIZE /\ zero \in Nat /\ zero \in Int
          /\ moved = [Connection EXCEPT
                         !.last_acked = ack, !.duplicate_num = zero,
                         !.overtime_count = zero, !.available = a]
      BY <2>4
    <3> HIDE DEF a, moved, ack, zero
    <3> QED
      BY <2>1, <2>2, <3>1, CHUNK_SIZE_Assumption DEF UploadConnection, a
  <2> HIDE DEF moved
  <2>6. /\ moved.next \in Int /\ moved.available \in Nat
        /\ moved.next <= moved.available + 2
    BY <2>2, <2>3, <2>4, <2>5, WindowEnd DEF UploadConnection
  <2>7. /\ Sent(moved) \in UploadConnection /\ Sent(moved).peer = pkt.peer
        /\ Sent(moved).available = Available(Sent(moved).last_acked)
        /\ Sent(moved).next \in {Sent(moved).available + 1, Sent(moved).available + 2}
    BY <2>5, <2>6 DEF Sent, UploadConnection
  <2> QED
    BY <1>1, <1>3, <2>7, WritesUpload
<1> QED
  BY <1>2, <1>3 DEF Acknowledge

\* counts a duplicate,
LEMMA StoresDuplicates ==
    ASSUME Inv, StoreDuplicates
    PROVE  Inv'
<1> DEFINE new == [Connection EXCEPT !.duplicate_num = reg + 1,
                                     !.overtime_count = 0]
<1>1. /\ pc = "duplicate" /\ pc' = "retransmit" /\ reg' = 0 /\ signals' = signals
      /\ pkt' = pkt /\ Connected(upload_pool, pkt.peer) /\ SetConnection(new)
      /\ UNCHANGED <<statuses, alarm>>
  BY DEF StoreDuplicates, Goto, At
<1>2. /\ Connection \in UploadConnection /\ Connection.peer = pkt.peer
      /\ Connection.available = Available(Connection.last_acked)
      /\ Connection.next \in {Connection.available + 1, Connection.available + 2}
  BY <1>1, AckedConnection
<1>3. reg + 1 \in Int /\ signals \in Nat
  BY DEF Inv, TypeOK
<1>4. /\ new \in UploadConnection /\ new.peer = pkt.peer
      /\ new.available = Available(new.last_acked)
      /\ new.next \in {new.available + 1, new.available + 2}
  BY <1>2, <1>3 DEF UploadConnection
<1> QED
  BY <1>1, <1>3, <1>4, WritesUpload

\* and sends the window again after enough of them.
LEMMA Retransmits ==
    ASSUME Inv, Retransmit
    PROVE  Inv'
<1>1. /\ pc = "retransmit" /\ pc' = "select" /\ reg' = 0 /\ signals' = 0
      /\ Connected(upload_pool, pkt.peer)
      /\ UNCHANGED statuses
  BY DEF Retransmit, Goto, At
<1>2. CASE Connection.duplicate_num >= DUPLICATE_LIMIT
  <2>1. SetConnection(Sent(Rewound(Connection))) /\ alarm' = TRUE
    BY <1>2 DEF Retransmit
  <2>2. Connection \in UploadConnection /\ Connection.peer = pkt.peer
    BY <1>1, AckedConnection
  <2> QED
    BY <1>1, <2>1, <2>2, SentAgain, WritesUpload
<1>3. CASE ~(Connection.duplicate_num >= DUPLICATE_LIMIT)
  <2>1. UNCHANGED <<download_pool, upload_pool, alarm>>
    BY <1>3 DEF Retransmit
  <2> QED
    BY <1>1, <2>1, Passes
<1> QED
  BY <1>2, <1>3

\* next++ stores what it has loaded.
LEMMA StoresNext ==
    ASSUME Inv, StoreNext
    PROVE  Inv'
<1> DEFINE new == [Connection EXCEPT !.next = reg + 1]
<1>1. /\ pc = "passed" /\ pc' = "send" /\ reg' = 0 /\ signals' = signals
      /\ pkt' = pkt /\ Connected(upload_pool, pkt.peer) /\ SetConnection(new)
      /\ UNCHANGED <<statuses, alarm>>
  BY DEF StoreNext, Goto, At
<1>2. /\ ~Downloads /\ Pool = upload_pool /\ pkt.type = "GET" /\ pkt \in Packet
      /\ Downloads' = Downloads /\ Pool' = upload_pool'
  BY <1>1, PacketAt DEF Inv, Downloads, Pool
<1>3. /\ Connection \in UploadConnection /\ Connection.peer = pkt.peer
      /\ \A k \in SlotsOf(upload_pool, pkt.peer) :
          upload_pool.connections[k] = Connection
  BY <1>1, <1>2, ConnectionAt
<1>4. \A k \in Occupied(upload_pool) :
        Sending(k) <=> k \in SlotsOf(upload_pool, pkt.peer)
  BY <1>1, <1>2, SendingAt
<1>5. /\ Connection.available = Available(Connection.last_acked)
      /\ reg <= Connection.available + 1
  <2>1. PICK k \in SlotsOf(upload_pool, pkt.peer) : TRUE
    BY <1>1 DEF Connected
  <2>2. k \in Occupied(upload_pool) /\ upload_pool.connections[k] = Connection
    BY <1>3, <2>1 DEF SlotsOf
  <2> QED
    BY <1>1, <1>4, <2>1, <2>2 DEF Inv, WindowOK
<1>6. reg \in Int /\ Connection.available \in Int
  BY <1>3 DEF Inv, TypeOK, UploadConnection
<1>7. /\ new \in UploadConnection /\ new.peer = pkt.peer
      /\ new.available = Available(new.last_acked)
      /\ new.next <= new.available + 2
  BY <1>3, <1>5, <1>6 DEF UploadConnection
<1> HIDE DEF new
<1>8. /\ upload_pool' \in PoolOf(max_conn, UploadConnection)
      /\ download_pool' = download_pool
      /\ download_pool'.size = download_pool.size
      /\ upload_pool'.size = upload_pool.size
      /\ Occupied(download_pool') = Occupied(download_pool)
      /\ Occupied(upload_pool') = Occupied(upload_pool)
      /\ OneEach(download_pool') /\ OneEach(upload_pool')
      /\ \A k \in Occupied(upload_pool) :
          upload_pool'.connections[k] =
              IF k \in SlotsOf(upload_pool, pkt.peer) THEN new
              ELSE upload_pool.connections[k]
      /\ \A t : SlotsOf(upload_pool', t) = SlotsOf(upload_pool, t)
  BY <1>1, <1>2, <1>7, WritesPools DEF Kind
<1>9. TypeOK'
  BY <1>1, <1>2, <1>8 DEF Inv, TypeOK, StatementsOf
<1>10. CountersOK'
  BY <1>1, <1>8, PlainCounters
<1>11. TimerOK'
  BY <1>1, <1>2, <1>8 DEF Inv, TimerOK, Connected
<1>12. WindowOK'
  <2>1. \A k \in Occupied(upload_pool) : Sending(k)' <=> Sending(k)
    <3>1. \A k \in Occupied(upload_pool) :
            upload_pool'.connections[k].peer = pkt.peer
            <=> upload_pool.connections[k].peer = pkt.peer
      BY <1>3, <1>7, <1>8
    <3> QED
      BY <1>1, <1>2, <3>1 DEF Sending
  <2> QED
    BY <1>1, <1>4, <1>7, <1>8, <2>1 DEF Inv, WindowOK
<1>13. TableOK'
  BY <1>1, <1>8 DEF Inv, TableOK, Promised, Judged
<1>14. StampedOK'
  BY <1>1 DEF StampedOK
<1> QED
  BY <1>9, <1>10, <1>11, <1>12, <1>13, <1>14 DEF Inv

\* A write by process_DATA that keeps the chunk of the connection.
LEMMA WritesDownload ==
    ASSUME Inv, pc \in {"copy", "stamp"}, pc' \in {"select", "stamp", "save"},
           pc' # "select" => pkt' = pkt,
           Connected(download_pool, pkt.peer),
           NEW c \in DownloadConnection, c.peer = pkt.peer,
           c.sha1 = Connection.sha1, SetConnection(c),
           pc' = "save" => c.overtime_count = 0,
           reg' = 0, signals' \in Nat,
           alarm' = TRUE \/ alarm' = alarm, UNCHANGED statuses
    PROVE  Inv'
<1>1. Downloads /\ Pool = download_pool /\ pkt.type = "DATA" /\ pkt \in Packet
  BY PacketAt DEF Inv, Downloads, Pool
<1>2. \A k \in SlotsOf(download_pool, pkt.peer) :
        download_pool.connections[k] = Connection
  BY <1>1, ConnectionAt
<1>3. /\ download_pool' \in PoolOf(max_conn, DownloadConnection)
      /\ upload_pool' = upload_pool
      /\ download_pool'.size = download_pool.size
      /\ upload_pool'.size = upload_pool.size
      /\ Occupied(download_pool') = Occupied(download_pool)
      /\ Occupied(upload_pool') = Occupied(upload_pool)
      /\ OneEach(download_pool') /\ OneEach(upload_pool')
      /\ \A k \in Occupied(download_pool) :
          download_pool'.connections[k] =
              IF k \in SlotsOf(download_pool, pkt.peer) THEN c
              ELSE download_pool.connections[k]
      /\ \A t : SlotsOf(download_pool', t) = SlotsOf(download_pool, t)
  BY <1>1, WritesPools DEF Kind
<1>4. TypeOK'
  <2>1. alarm' \in BOOLEAN
    BY Zenon DEF Inv, TypeOK
  <2> QED
    BY <1>1, <1>3, <2>1 DEF Inv, TypeOK, StatementsOf
<1>5. CountersOK'
  BY <1>3, PlainCounters
<1>6. TimerOK'
  <2>1. alarm => alarm'
    BY Zenon
  <2> QED
    BY <1>3, <2>1 DEF Inv, TimerOK
<1>7. WindowOK'
  BY <1>3 DEF Inv, WindowOK, Sending
<1>8. TableOK'
  <2>1. \A k \in Occupied(download_pool) :
          download_pool'.connections[k].sha1 = download_pool.connections[k].sha1
    BY <1>2, <1>3
  <2>2. Promised = {} /\ Promised' = {} /\ Judged = {} /\ Judged' = {}
    BY DEF Promised, Judged
  <2> QED
    BY <1>3, <2>1, <2>2 DEF Inv, TableOK
<1>9. StampedOK'
  <2>1. SUFFICES ASSUME pc' = "save",
                        NEW k \in SlotsOf(download_pool', pkt.peer)
                 PROVE  download_pool'.connections[k].overtime_count = 0
    BY DEF StampedOK
  <2>2. k \in SlotsOf(download_pool, pkt.peer) /\ k \in Occupied(download_pool)
    BY <1>3, <2>1 DEF SlotsOf
  <2> QED
    BY <1>3, <2>1, <2>2
<1> QED
  BY <1>4, <1>5, <1>6, <1>7, <1>8, <1>9 DEF Inv

\* The connection a DATA packet is for.
LEMMA ReadingConnection ==
    ASSUME Inv, pc \in {"copy", "stamp", "save"},
           Connected(download_pool, pkt.peer)
    PROVE  /\ Downloads /\ Pool = download_pool
           /\ Connection \in DownloadConnection /\ Connection.peer = pkt.peer
           /\ \A k \in SlotsOf(download_pool, pkt.peer) :
               download_pool.connections[k] = Connection
<1>1. Downloads /\ Pool = download_pool
  BY PacketAt DEF Inv, Downloads, Pool
<1> QED
  BY <1>1, ConnectionAt

\* process_DATA takes the packet it expects,
LEMMA Copies ==
    ASSUME Inv, CopyData
    PROVE  Inv'
<1> DEFINE seq == IF Connection.expected_seq = pkt.seq_num
                  THEN Connection.expected_seq + 1 ELSE Connection.expected_seq
           new == [Connection EXCEPT !.expected_seq = seq]
<1>1. /\ pc = "copy" /\ pc' = "stamp" /\ reg' = 0 /\ signals' = signals
      /\ pkt' = pkt /\ Connected(download_pool, pkt.peer)
      /\ UNCHANGED <<statuses, alarm>>
      /\ SetConnection([Connection EXCEPT
             !.expected_seq = IF @ = pkt.seq_num THEN @ + 1 ELSE @])
  BY DEF CopyData, Goto, At
<1>2. Connection \in DownloadConnection /\ Connection.peer = pkt.peer
  BY <1>1, ReadingConnection
<1>3. seq \in Nat /\ SetConnection(new)
  BY <1>1, <1>2 DEF DownloadConnection
<1> HIDE DEF seq
<1>4. /\ new \in DownloadConnection /\ new.peer = pkt.peer
      /\ new.sha1 = Connection.sha1
  BY <1>2, <1>3 DEF DownloadConnection
<1>5. signals' \in Nat
  BY <1>1 DEF Inv, TypeOK
<1> HIDE DEF new
<1> QED
  BY <1>1, <1>3, <1>4, <1>5, WritesDownload

\* and starts the timer of the connection anew.
LEMMA Stamps ==
    ASSUME Inv, Stamp
    PROVE  Inv'
<1> DEFINE new == Stamped(Connection)
<1>1. /\ pc = "stamp" /\ pc' \in {"save", "select"} /\ reg' = 0
      /\ pc' # "select" => pkt' = pkt
      /\ signals' \in {0, signals}
      /\ Connected(download_pool, pkt.peer)
      /\ alarm' = TRUE /\ UNCHANGED statuses
      /\ SetConnection(new)
  BY DEF Stamp, Goto, At
<1>2. Connection \in DownloadConnection /\ Connection.peer = pkt.peer
  BY <1>1, ReadingConnection
<1>3. /\ new \in DownloadConnection /\ new.peer = pkt.peer
      /\ new.sha1 = Connection.sha1 /\ new.overtime_count = 0
  BY <1>2 DEF DownloadConnection, Stamped
<1>4. signals' \in Nat
  BY <1>1 DEF Inv, TypeOK
<1> HIDE DEF new
<1> QED
  BY <1>1, <1>3, <1>4, WritesDownload

-----------------------------------------------------------------------------
(* Statements that write a status. *)

\* update_provider marks a chunk that has no connection.
LEMMA Provides ==
    ASSUME Inv, Provide
    PROVE  Inv'
<1>1. PICK h \in pkt.chunks :
        /\ statuses[h] = "NOT_DOWNLOADED"
        /\ statuses' = [statuses EXCEPT ![h] = "DOWNLOADING"]
        /\ pc' = "add" /\ pkt' = [pkt EXCEPT !.chunks = {h}]
  BY DEF Provide
<1>2. /\ pc = "provide"
      /\ UNCHANGED <<download_pool, upload_pool, alarm, run, reg, signals>>
  BY DEF Provide, At
<1>3. pkt \in Packet /\ pkt.type = "IHAVE" /\ pkt.chunks \in SUBSET Hash
  BY <1>2, PacketAt, PacketFields DEF Inv
<1>4. /\ h \in Hash /\ pkt' \in Packet
      /\ pkt'.type = "IHAVE" /\ pkt'.peer = pkt.peer /\ pkt'.chunks = {h}
  BY <1>1, <1>3 DEF Packet
<1>5. /\ Downloads /\ Downloads' /\ Pool = download_pool /\ Pool' = download_pool
  BY <1>2, <1>3, <1>4 DEF Downloads, Pool
<1>6. TypeOK'
  BY <1>1, <1>2, <1>4 DEF Inv, TypeOK, StatementsOf
<1>7. CountersOK'
  BY <1>1, <1>2, <1>4, <1>5 DEF Inv, CountersOK, Slack
<1>8. TimerOK' /\ StampedOK'
  BY <1>1, <1>2 DEF Inv, TimerOK, StampedOK
<1>9. WindowOK'
  BY <1>1, <1>2 DEF Inv, WindowOK, Sending
<1>10. TableOK'
  <2>1. /\ Promised = {} /\ Judged = {} /\ Judged' = {} /\ Promised' = {h}
    BY <1>1, <1>2, <1>4, <1>5 DEF Promised, Judged
  <2>2. \A k \in Occupied(download_pool) : download_pool.connections[k].sha1 # h
    BY <1>1, <1>4, <2>1 DEF Inv, TableOK
  <2>3. \A g \in Hash : statuses'[g] = IF g = h THEN "DOWNLOADING" ELSE statuses[g]
    BY <1>1, <1>4 DEF Inv, TypeOK
  <2> QED
    BY <1>2, <1>4, <2>1, <2>2, <2>3 DEF Inv, TableOK
<1> QED
  BY <1>6, <1>7, <1>8, <1>9, <1>10 DEF Inv

\* save_data judges a chunk whose connection is still there.
LEMMA Saves ==
    ASSUME Inv, SaveData
    PROVE  Inv'
<1>1. PICK s \in {"DONE", "NOT_DOWNLOADED"} :
        statuses' = [statuses EXCEPT ![Connection.sha1] = s]
  BY DEF SaveData
<1>2. /\ pc = "save" /\ pc' = "remove" /\ pkt' = pkt
      /\ reg' = 0 /\ signals' = signals
      /\ Connected(download_pool, pkt.peer)
      /\ UNCHANGED <<download_pool, upload_pool, alarm>>
  BY DEF SaveData, Goto, At
<1>3. /\ Downloads /\ Pool = download_pool /\ Connection.sha1 \in Hash
      /\ \A k \in SlotsOf(download_pool, pkt.peer) :
          download_pool.connections[k] = Connection
  BY <1>2, ReadingConnection DEF DownloadConnection
<1>4. pkt \in Packet /\ pkt.type = "DATA" /\ Downloads' = Downloads
  BY <1>2, PacketAt DEF Inv, Downloads
<1>5. TypeOK'
  <2>1. statuses' \in [Hash -> {"NOT_DOWNLOADED", "DOWNLOADING", "DONE"}]
    BY <1>1 DEF Inv, TypeOK
  <2> QED
    BY <1>2, <1>4, <2>1 DEF Inv, TypeOK, StatementsOf
<1>6. CountersOK'
  BY <1>2, <1>4 DEF Inv, CountersOK, Slack
<1>7. TimerOK' /\ StampedOK'
  BY <1>2, <1>4 DEF Inv, TimerOK, StampedOK
<1>8. WindowOK'
  BY <1>2 DEF Inv, WindowOK, Sending
<1>9. TableOK'
  <2> DEFINE h == Connection.sha1
  <2>1. PICK k \in SlotsOf(download_pool, pkt.peer) : TRUE
    BY <1>2 DEF Connected
  <2>2. k \in Occupied(download_pool) /\ download_pool.connections[k].sha1 = h
    BY <1>3, <2>1 DEF SlotsOf
  <2>3. /\ Promised = {} /\ Promised' = {} /\ Judged = {}
        /\ Judged' = SlotsOf(download_pool, pkt.peer)
    BY <1>2, <1>3, <1>4 DEF Promised, Judged
  <2>4. \A g \in Hash : statuses'[g] = IF g = h THEN s ELSE statuses[g]
    BY <1>1, <1>3 DEF Inv, TypeOK
  <2>5. \A j \in Occupied(download_pool) :
          j \in SlotsOf(download_pool, pkt.peer)
          <=> download_pool.connections[j].sha1 = h
    BY <1>3, <2>2 DEF Inv, TableOK
  <2>6. \A j, l \in Occupied(download_pool) :
          download_pool.connections[j].sha1 = download_pool.connections[l].sha1
          => j = l
    BY DEF Inv, TableOK
  <2>7. \A g \in Hash : statuses[g] = "DOWNLOADING"
          <=> \E j \in Occupied(download_pool) : download_pool.connections[j].sha1 = g
    BY <2>3 DEF Inv, TableOK
  <2>8. s # "DOWNLOADING"
    OBVIOUS
  <2> HIDE DEF h
  <2>9. \A g \in Hash : statuses'[g] = "DOWNLOADING"
          <=> \E j \in Occupied(download_pool) \ Judged' :
                  download_pool.connections[j].sha1 = g
    BY <2>3, <2>4, <2>5, <2>7, <2>8
  <2> QED
    BY <1>2, <2>3, <2>6, <2>9 DEF TableOK
<1> QED
  BY <1>5, <1>6, <1>7, <1>8, <1>9 DEF Inv

-----------------------------------------------------------------------------
(* The signal, and the theorems. *)

\* The first loop of handle_timeout: what becomes of the connections that have
\* waited too long for an ACK, and of the others.
LEMMA UploadsTimedOut ==
    ASSUME Inv, NEW up \in SUBSET Occupied(upload_pool)
    PROVE  LET U == Checked(upload_pool, up, ResentUploads(upload_pool, up))
           IN  /\ U \in PoolOf(max_conn, UploadConnection)
               /\ Occupied(U) = Occupied(upload_pool) \ GivenUp(upload_pool, up)
               /\ \A k \in Occupied(U) :
                    LET c == upload_pool.connections[k]
                        d == U.connections[k]
                    IN  /\ d.peer = c.peer /\ d.last_acked = c.last_acked
                        /\ d = c \/ /\ d.available = Available(d.last_acked)
                                    /\ d.next = d.available + 1
               /\ OneEach(U)
               /\ Cardinality(Occupied(U)) <= Cardinality(Occupied(upload_pool))
               /\ U.size - Cardinality(Occupied(U))
                  = upload_pool.size - Cardinality(Occupied(upload_pool))
               /\ \A t : SlotsOf(U, t)
                         = SlotsOf(upload_pool, t) \ GivenUp(upload_pool, up)
<1> DEFINE r == ResentUploads(upload_pool, up)
           U == Checked(upload_pool, up, r)
<1>1. \A k \in up :
        /\ r[k] \in UploadConnection
        /\ r[k].peer = upload_pool.connections[k].peer
        /\ r[k].last_acked = upload_pool.connections[k].last_acked
        /\ r[k].available = Available(r[k].last_acked)
        /\ r[k].next = r[k].available + 1
  <2> SUFFICES ASSUME NEW k \in up
               PROVE  /\ r[k] \in UploadConnection
                      /\ r[k].peer = upload_pool.connections[k].peer
                      /\ r[k].last_acked = upload_pool.connections[k].last_acked
                      /\ r[k].available = Available(r[k].last_acked)
                      /\ r[k].next = r[k].available + 1
    OBVIOUS
  <2> DEFINE c == Overtime(upload_pool.connections[k])
  <2>1. upload_pool.connections[k] \in UploadConnection
    BY PoolsAt DEF Inv
  <2>2. c \in UploadConnection /\ c.peer = upload_pool.connections[k].peer
        /\ c.last_acked = upload_pool.connections[k].last_acked
    BY <2>1 DEF Overtime, UploadConnection
  <2>3. r[k] = Sent(Rewound(c))
    BY DEF ResentUploads
  <2> HIDE DEF c, r
  <2> QED
    BY <2>2, <2>3, SentAgain
<1>2. /\ max_conn \in Nat /\ NULL \notin UploadConnection
      /\ upload_pool \in PoolOf(max_conn, UploadConnection)
      /\ OneEach(upload_pool)
  BY SignalRace_Assumption, NULL_Assumption DEF Inv, TypeOK, CountersOK
<1>3. \A k \in up \ GivenUp(upload_pool, up) :
        r[k] \in UploadConnection /\ r[k].peer = upload_pool.connections[k].peer
  BY <1>1
<1> HIDE DEF r
<1>4. /\ U \in PoolOf(max_conn, UploadConnection)
      /\ Occupied(U) = Occupied(upload_pool) \ GivenUp(upload_pool, up)
      /\ \A k \in Occupied(U) :
           /\ U.connections[k].peer = upload_pool.connections[k].peer
           /\ U.connections[k] = IF k \in up THEN r[k] ELSE upload_pool.connections[k]
      /\ OneEach(U)
      /\ Cardinality(Occupied(U)) <= Cardinality(Occupied(upload_pool))
      /\ U.size - Cardinality(Occupied(U))
         = upload_pool.size - Cardinality(Occupied(upload_pool))
      /\ \A t : SlotsOf(U, t) = SlotsOf(upload_pool, t) \ GivenUp(upload_pool, up)
  BY <1>2, <1>3, TimedOut
<1> HIDE DEF U
<1>5. ASSUME NEW k \in Occupied(U)
      PROVE  LET c == upload_pool.connections[k]
                 d == U.connections[k]
             IN  /\ d.peer = c.peer /\ d.last_acked = c.last_acked
                 /\ d = c \/ /\ d.available = Available(d.last_acked)
                             /\ d.next = d.available + 1
  <2>1. CASE k \in up
    BY <1>1, <1>4, <2>1
  <2>2. CASE k \notin up
    BY <1>4, <2>2
  <2> QED
    BY <2>1, <2>2
<1> QED
  BY <1>4, <1>5 DEF U, r

\* The second loop: the connections that have waited too long for DATA.
LEMMA DownloadsTimedOut ==
    ASSUME Inv, NEW down \in SUBSET Occupied(download_pool)
    PROVE  LET D == Checked(download_pool, down, WaitingDownloads(download_pool, down))
           IN  /\ D \in PoolOf(max_conn, DownloadConnection)
               /\ Occupied(D) = Occupied(download_pool) \ GivenUp(download_pool, down)
               /\ \A k \in Occupied(D) :
                    LET c == download_pool.connections[k]
                        d == D.connections[k]
                    IN  /\ d.peer = c.peer /\ d.sha1 = c.sha1
                        /\ d.overtime_count
                           \in {c.overtime_count, c.overtime_count + 1}
               /\ OneEach(D)
               /\ Cardinality(Occupied(D)) <= Cardinality(Occupied(download_pool))
               /\ D.size - Cardinality(Occupied(D))
                  = download_pool.size - Cardinality(Occupied(download_pool))
               /\ \A t : SlotsOf(D, t)
                         = SlotsOf(download_pool, t) \ GivenUp(download_pool, down)
<1> DEFINE r == WaitingDownloads(download_pool, down)
           D == Checked(download_pool, down, r)
<1>1. \A k \in down :
        /\ r[k] \in DownloadConnection
        /\ r[k].peer = download_pool.connections[k].peer
        /\ r[k].sha1 = download_pool.connections[k].sha1
        /\ r[k].overtime_count = download_pool.connections[k].overtime_count + 1
  <2> SUFFICES ASSUME NEW k \in down
               PROVE  /\ r[k] \in DownloadConnection
                      /\ r[k].peer = download_pool.connections[k].peer
                      /\ r[k].sha1 = download_pool.connections[k].sha1
                      /\ r[k].overtime_count
                         = download_pool.connections[k].overtime_count + 1
    OBVIOUS
  <2>1. download_pool.connections[k] \in DownloadConnection
    BY PoolsAt DEF Inv
  <2> QED
    BY <2>1 DEF WaitingDownloads, Overtime, DownloadConnection
<1>2. /\ max_conn \in Nat /\ NULL \notin DownloadConnection
      /\ download_pool \in PoolOf(max_conn, DownloadConnection)
      /\ OneEach(download_pool)
  BY SignalRace_Assumption, NULL_Assumption DEF Inv, TypeOK, CountersOK
<1>3. \A k \in down \ GivenUp(download_pool, down) :
        r[k] \in DownloadConnection /\ r[k].peer = download_pool.connections[k].peer
  BY <1>1
<1> HIDE DEF r
<1>4. /\ D \in PoolOf(max_conn, DownloadConnection)
      /\ Occupied(D) = Occupied(download_pool) \ GivenUp(download_pool, down)
      /\ \A k \in Occupied(D) :
           /\ D.connections[k].peer = download_pool.connections[k].peer
           /\ D.connections[k] =
                  IF k \in down THEN r[k] ELSE download_pool.connections[k]
      /\ OneEach(D)
      /\ Cardinality(Occupied(D)) <= Cardinality(Occupied(download_pool))
      /\ D.size - Cardinality(Occupied(D))
         = download_pool.size - Cardinality(Occupied(download_pool))
      /\ \A t : SlotsOf(D, t) = SlotsOf(download_pool, t) \ GivenUp(download_pool, down)
  BY <1>2, <1>3, TimedOut
<1> HIDE DEF D
<1>5. ASSUME NEW k \in Occupied(D)
      PROVE  LET c == download_pool.connections[k]
                 d == D.connections[k]
             IN  /\ d.peer = c.peer /\ d.sha1 = c.sha1
                 /\ d.overtime_count \in {c.overtime_count, c.overtime_count + 1}
  <2>1. CASE k \in down
    BY <1>1, <1>4, <2>1
  <2>2. CASE k \notin down
    BY <1>4, <2>2
  <2> QED
    BY <2>1, <2>2
<1> QED
  BY <1>4, <1>5 DEF D, r

\* A signal in any statement keeps what holds there.
LEMMA Times ==
    ASSUME Inv, NEW up \in SUBSET (Occupied(upload_pool) \ FreedUpload),
           NEW down \in SUBSET (Occupied(download_pool) \ FreedDownload),
           HandleTimeout(up, down)
    PROVE  Inv'
<1> DEFINE U == upload_pool'
           D == download_pool'
           out == GivenUp(download_pool, down)
<1>1. /\ up \in SUBSET Occupied(upload_pool)
      /\ down \in SUBSET Occupied(download_pool)
      /\ out \subseteq down
  BY DEF GivenUp
<1>2. /\ pc' = pc /\ pkt' = pkt /\ reg' = reg /\ run' = run
      /\ signals' = IF pc = "select" THEN 0 ELSE signals + 1
      /\ statuses' = Reopened(out)
      /\ Downloads' = Downloads
  BY DEF HandleTimeout, Downloads
<1>3. /\ D \in PoolOf(max_conn, DownloadConnection)
      /\ Occupied(D) = Occupied(download_pool) \ out
      /\ \A k \in Occupied(D) :
           LET c == download_pool.connections[k]
               d == D.connections[k]
           IN  /\ d.peer = c.peer /\ d.sha1 = c.sha1
               /\ d.overtime_count \in {c.overtime_count, c.overtime_count + 1}
      /\ OneEach(D)
      /\ Cardinality(Occupied(D)) <= Cardinality(Occupied(download_pool))
      /\ D.size - Cardinality(Occupied(D))
         = download_pool.size - Cardinality(Occupied(download_pool))
      /\ \A t : SlotsOf(D, t) = SlotsOf(download_pool, t) \ out
      /\ U \in PoolOf(max_conn, UploadConnection)
      /\ Occupied(U) = Occupied(upload_pool) \ GivenUp(upload_pool, up)
      /\ \A k \in Occupied(U) :
           LET c == upload_pool.connections[k]
               d == U.connections[k]
           IN  /\ d.peer = c.peer /\ d.last_acked = c.last_acked
               /\ d = c \/ /\ d.available = Available(d.last_acked)
                           /\ d.next = d.available + 1
      /\ OneEach(U)
      /\ Cardinality(Occupied(U)) <= Cardinality(Occupied(upload_pool))
      /\ U.size - Cardinality(Occupied(U))
         = upload_pool.size - Cardinality(Occupied(upload_pool))
      /\ \A t : SlotsOf(U, t) = SlotsOf(upload_pool, t) \ GivenUp(upload_pool, up)
  BY <1>1, UploadsTimedOut, DownloadsTimedOut DEF HandleTimeout
<1>4. /\ D.size \in Int /\ U.size \in Int
      /\ Cardinality(Occupied(D)) \in Nat /\ Cardinality(Occupied(U)) \in Nat
  BY <1>3, PoolsAt, PoolSlots DEF Inv
<1>5. /\ alarm' \in BOOLEAN
      /\ Occupied(D) \cup Occupied(U) = {} \/ alarm'
  <2>1. alarm' = ((Occupied(U) \cup Occupied(D) # {}) \/ (out # {}))
    BY DEF HandleTimeout, Rearmed
  <2> QED
    BY <2>1, Zenon
<1>6. \A h \in Hash :
        statuses'[h] = IF \E k \in out : download_pool.connections[k].sha1 = h
                       THEN "NOT_DOWNLOADED" ELSE statuses[h]
  BY <1>2 DEF Reopened
<1>7. TypeOK'
  <2>1. statuses' \in [Hash -> {"NOT_DOWNLOADED", "DOWNLOADING", "DONE"}]
    BY <1>2 DEF Inv, TypeOK, Reopened
  <2>2. signals' \in Nat
    BY <1>2 DEF Inv, TypeOK
  <2> QED
    BY <1>2, <1>3, <1>5, <2>1, <2>2 DEF Inv, TypeOK
<1>8. CountersOK'
  <2>1. Pool' = IF Downloads THEN D ELSE U
    BY <1>2 DEF Pool
  <2>2. /\ \A s \in {-1, 0, 1} : Covers(download_pool.size, download_pool, s)
                                => Covers(D.size, D, s)
        /\ \A s \in {-1, 0, 1} : Covers(upload_pool.size, upload_pool, s)
                                => Covers(U.size, U, s)
        /\ \A s \in {-1, 0, 1} : Covers(reg, Pool, s) => Covers(reg, Pool', s)
    <3>1. /\ download_pool.size \in Int /\ upload_pool.size \in Int /\ reg \in Int
          /\ Cardinality(Occupied(download_pool)) \in Nat
          /\ Cardinality(Occupied(upload_pool)) \in Nat
      BY PoolsAt, PoolSlots, SignalRace_Assumption DEF Inv, TypeOK
    <3>2. /\ Cardinality(Occupied(D)) <= Cardinality(Occupied(download_pool))
          /\ D.size - Cardinality(Occupied(D))
             = download_pool.size - Cardinality(Occupied(download_pool))
          /\ Cardinality(Occupied(U)) <= Cardinality(Occupied(upload_pool))
          /\ U.size - Cardinality(Occupied(U))
             = upload_pool.size - Cardinality(Occupied(upload_pool))
      BY <1>3
    <3>3. ASSUME NEW s \in {-1, 0, 1}, Covers(download_pool.size, download_pool, s)
          PROVE  Covers(D.size, D, s)
      BY <1>4, <3>1, <3>2, <3>3 DEF Covers
    <3>4. ASSUME NEW s \in {-1, 0, 1}, Covers(upload_pool.size, upload_pool, s)
          PROVE  Covers(U.size, U, s)
      BY <1>4, <3>1, <3>2, <3>4 DEF Covers
    <3>5. ASSUME NEW s \in {-1, 0, 1}, Covers(reg, Pool, s)
          PROVE  Covers(reg, Pool', s)
      <4>1. CASE Downloads
        BY <1>4, <2>1, <3>1, <3>2, <3>5, <4>1 DEF Covers, Pool
      <4>2. CASE ~Downloads
        BY <1>4, <2>1, <3>1, <3>2, <3>5, <4>2 DEF Covers, Pool
      <4> QED
        BY <4>1, <4>2
    <3> QED
      BY <3>3, <3>4, <3>5
  <2>3. Slack(pc) \in {-1, 0, 1}
    BY DEF Slack
  <2>4. Cardinality(Occupied(Pool')) <= Cardinality(Occupied(Pool))
    BY <1>3, <2>1 DEF Pool
  <2>5. \A t : ~Connected(Pool, t) => ~Connected(Pool', t)
    BY <1>3, <2>1 DEF Pool, Connected
  <2>6. pc = "freed" => Connected(Pool', pkt.peer)
    <3>1. CASE Downloads
      <4>1. pc = "freed" => SlotsOf(download_pool, pkt.peer) \cap down = {}
        BY <3>1 DEF FreedDownload
      <4> QED
        BY <1>1, <1>3, <2>1, <3>1, <4>1 DEF Inv, CountersOK, Connected, Pool
    <3>2. CASE ~Downloads
      <4>1. pc = "freed" => SlotsOf(upload_pool, pkt.peer) \cap up = {}
        BY <3>2 DEF FreedUpload
      <4>2. GivenUp(upload_pool, up) \subseteq up
        BY DEF GivenUp
      <4> QED
        BY <1>3, <2>1, <3>2, <4>1, <4>2 DEF Inv, CountersOK, Connected, Pool
    <3> QED
      BY <3>1, <3>2
  <2>7. /\ Covers(download_pool.size, download_pool,
                  IF pc # "select" /\ Downloads THEN Slack(pc) ELSE 0)
        /\ Covers(upload_pool.size, upload_pool,
                  IF pc # "select" /\ ~Downloads THEN Slack(pc) ELSE 0)
    BY DEF Inv, CountersOK
  <2>8. /\ Covers(D.size, D, IF pc # "select" /\ Downloads THEN Slack(pc) ELSE 0)
        /\ Covers(U.size, U, IF pc # "select" /\ ~Downloads THEN Slack(pc) ELSE 0)
    BY <2>2, <2>3, <2>7
  <2>9. pc \in {"provide", "add"} => Cardinality(Occupied(Pool')) < max_conn
    <3>1. pc \in {"provide", "add"} => Cardinality(Occupied(Pool)) < max_conn
      BY DEF Inv, CountersOK
    <3>2. /\ max_conn \in Nat /\ Cardinality(Occupied(Pool)) \in Nat
          /\ Cardinality(Occupied(Pool')) \in Nat
      BY <1>4, <2>1, PoolAt
    <3> QED
      BY <2>4, <3>1, <3>2
  <2>10. pc \in {"counted", "uncounted"} => Covers(reg, Pool', Slack(pc))
    BY <2>2, <2>3 DEF Inv, CountersOK
  <2>11. pc \in {"admit", "provide", "add", "uncount", "uncounted"}
         => ~Connected(Pool', pkt.peer)
    BY <2>5 DEF Inv, CountersOK
  <2> QED
    BY <1>2, <1>3, <2>6, <2>8, <2>9, <2>10, <2>11 DEF CountersOK
<1>9. TimerOK'
  BY <1>5 DEF TimerOK
<1>10. WindowOK'
  <2>1. \A k \in Occupied(U) : Sending(k)' <=> Sending(k)
    BY <1>2, <1>3 DEF Sending
  <2>2. \A k \in Occupied(U) : U.connections[k] \in UploadConnection
    BY <1>3, PoolsAt, PoolSlots DEF Inv
  <2>3. \A k \in Occupied(U) :
          LET c == U.connections[k]
          IN  /\ c.available = Available(c.last_acked)
              /\ c.next <= c.available + 2
              /\ ~Sending(k) => c.next > c.available
              /\ pc \in {"next", "passed"} /\ Sending(k) => c.next <= c.available + 1
    BY <1>3, <2>2 DEF Inv, WindowOK, UploadConnection
  <2>4. \A k \in Occupied(U) : pc = "passed" /\ Sending(k)
                               => reg <= U.connections[k].available + 1
    BY <1>3, <2>2, <2>3 DEF Inv, WindowOK
  <2> QED
    BY <1>2, <2>1, <2>3, <2>4 DEF WindowOK
<1>11. TableOK'
  <2>1. /\ Promised' = Promised
        /\ pc \in {"remove", "freed"} /\ Downloads => Judged' = Judged \ out
        /\ ~(pc \in {"remove", "freed"} /\ Downloads) => Judged = {} /\ Judged' = {}
    BY <1>2, <1>3 DEF Promised, Judged
  <2>2. Judged' = Judged \ out
    BY <2>1
  <2>3. \A j, k \in Occupied(D) : D.connections[j].sha1 = D.connections[k].sha1 => j = k
    BY <1>3 DEF Inv, TableOK
  <2>4. \A h \in Promised : \A k \in Occupied(D) : D.connections[k].sha1 # h
    BY <1>3 DEF Inv, TableOK
  <2>5. ASSUME NEW h \in Hash
        PROVE  statuses'[h] = "DOWNLOADING"
               <=> \/ h \in Promised
                   \/ \E k \in Occupied(D) \ Judged' : D.connections[k].sha1 = h
    <3>1. CASE \E k \in out : download_pool.connections[k].sha1 = h
      <4>1. PICK k \in out : download_pool.connections[k].sha1 = h
        BY <3>1
      <4>2. k \in Occupied(download_pool)
        BY <1>1
      <4>3. statuses'[h] = "NOT_DOWNLOADED"
        BY <1>6, <3>1
      <4>4. h \notin Promised
        BY <4>1, <4>2 DEF Inv, TableOK
      <4>5. \A j \in Occupied(D) : D.connections[j].sha1 # h
        BY <1>3, <4>1, <4>2 DEF Inv, TableOK
      <4> QED
        BY <4>3, <4>4, <4>5
    <3>2. CASE ~\E k \in out : download_pool.connections[k].sha1 = h
      <4>1. statuses'[h] = statuses[h]
        BY <1>6, <3>2
      <4>2. statuses[h] = "DOWNLOADING"
            <=> \/ h \in Promised
                \/ \E k \in Occupied(download_pool) \ Judged :
                       download_pool.connections[k].sha1 = h
        BY DEF Inv, TableOK
      <4>3. (\E k \in Occupied(download_pool) \ Judged :
                 download_pool.connections[k].sha1 = h)
            <=> \E k \in Occupied(D) \ Judged' : D.connections[k].sha1 = h
        BY <1>3, <2>2, <3>2
      <4> QED
        BY <4>1, <4>2, <4>3
    <3> QED
      BY <3>1, <3>2
  <2> QED
    BY <2>1, <2>3, <2>4, <2>5 DEF TableOK
<1>12. StampedOK'
  <2>1. SUFFICES ASSUME pc \in {"save", "remove"}, Downloads,
                        NEW k \in SlotsOf(D, pkt.peer)
                 PROVE  D.connections[k].overtime_count <= signals + 1
    BY <1>2 DEF StampedOK
  <2>2. k \in SlotsOf(download_pool, pkt.peer) /\ k \in Occupied(D)
    BY <1>3 DEF SlotsOf
  <2>3. /\ download_pool.connections[k].overtime_count <= signals
        /\ download_pool.connections[k].overtime_count \in Nat
        /\ signals \in Nat
    BY <1>3, <2>1, <2>2, PoolsAt
       DEF Inv, StampedOK, TypeOK, DownloadConnection, SlotsOf
  <2> QED
    BY <1>3, <2>2, <2>3
<1> QED
  BY <1>7, <1>8, <1>9, <1>10, <1>11, <1>12 DEF Inv

\* Between packets, and with empty pools, nothing is pending.
LEMMA InitInv == Init => Inv
<1> SUFFICES ASSUME Init PROVE Inv
  OBVIOUS
<1>1. max_conn \in Nat
  BY SignalRace_Assumption
<1>2. /\ download_pool \in PoolOf(max_conn, DownloadConnection)
      /\ upload_pool \in PoolOf(max_conn, UploadConnection)
      /\ Occupied(download_pool) = {} /\ Occupied(upload_pool) = {}
  BY <1>1, EmptyPoolType DEF Init
<1>3. download_pool.size = 0 /\ upload_pool.size = 0
  BY DEF Init, EmptyPool
<1>4. pc = "select" /\ statuses = [h \in Hash |-> "NOT_DOWNLOADED"]
  BY DEF Init
<1>5. TypeOK
  BY <1>2, <1>4 DEF Init, TypeOK
<1>6. CountersOK
  BY <1>2, <1>3, <1>4, FS_EmptySet DEF CountersOK, OneEach, Covers
<1>7. TimerOK /\ WindowOK /\ StampedOK
  BY <1>2, <1>4 DEF TimerOK, WindowOK, StampedOK
<1>8. TableOK
  BY <1>2, <1>4 DEF TableOK, Promised
<1> QED
  BY <1>5, <1>6, <1>7, <1>8 DEF Inv

\* Every statement, and every signal, keeps the invariant.
LEMMA NextInv == Inv /\ [Next]_vars => Inv'
<1> SUFFICES ASSUME Inv, [Next]_vars PROVE Inv'
  OBVIOUS
<1>1. CASE Reads
  BY <1>1, ReadsTypes, ReadsCounters, ReadsTimer, ReadsWindow, ReadsTable,
     ReadsStamped DEF Inv
<1>2. CASE ClearSlot \/ Uncount \/ Count \/ FillSlot \/ CloseUpload
  BY <1>2, Clears, Counts, Fills, Closes
<1>3. CASE Provide \/ StoreNext \/ CopyData \/ Stamp \/ SaveData
  BY <1>3, Provides, StoresNext, Copies, Stamps, Saves
<1>4. CASE Acknowledge \/ StoreDuplicates \/ Retransmit
  BY <1>4, Acknowledges, StoresDuplicates, Retransmits
<1>5. CASE SIGALRM
  BY <1>5, Times DEF SIGALRM
<1>6. CASE UNCHANGED vars
  <2>1. TypeOK' /\ CountersOK'
    BY <1>6 DEF vars, Inv, TypeOK, CountersOK, Covers, Pool, Downloads
  <2>2. TimerOK' /\ StampedOK'
    BY <1>6 DEF vars, Inv, TimerOK, StampedOK, Pool, Downloads
  <2>3. WindowOK'
    BY <1>6 DEF vars, Inv, WindowOK, Sending, Downloads
  <2>4. TableOK'
    BY <1>6 DEF vars, Inv, TableOK, Promised, Judged, Downloads
  <2> QED
    BY <2>1, <2>2, <2>3, <2>4 DEF Inv
<1> QED
  BY <1>1, <1>2, <1>3, <1>4, <1>5, <1>6 DEF Next, Reads

\* Inv holds at every statement.
LEMMA InvIsInvariant == Spec => []Inv
  BY InitInv, NextInv, PTL DEF Spec

\* In size++ and size-- a signal may come between the load and the store, and
\* the store loses what handle_timeout subtracted.  The counter of a pool is
\* never less than the connections in it for that, so that a handler that was
\* admitted (size < max_conn) finds a free slot in add_to_*_pool.
THEOREM AdmissionIsSafe == Spec => []AdmittedFindsSlot
<1>1. Inv => AdmittedFindsSlot
  <2> SUFFICES ASSUME Inv, pc = "add" PROVE FreeSlots(Pool) # {}
    BY DEF AdmittedFindsSlot, At
  <2>1. Cardinality(Occupied(Pool)) < max_conn
    BY DEF Inv, CountersOK
  <2> QED
    BY <2>1, PoolAt, FreeSlotExists
<1> QED
  BY <1>1, InvIsInvariant, PTL

\* handle_timeout does not set the timer again if it finds no connection, and a
\* signal may do so in the middle of the handler that is making the first one.
\* That handler sets the timer itself before it returns, so that a peer that
\* waits for packets has a SIGALRM coming.
THEOREM TimerIsSet == Spec => []TimerCoversConnections
<1>1. Inv => TimerCoversConnections
  BY DEF Inv, TimerOK, TimerCoversConnections, At
<1> QED
  BY <1>1, InvIsInvariant, PTL

\* process_GET sends its window with the timer running, and handle_timeout may
\* send it again in between.  When the handler has returned, next has passed the
\* whole window, and at most one packet more than it.
THEOREM WindowIsPassed == Spec => []AtMostOneSkipped
<1>1. Inv => AtMostOneSkipped
  <2> SUFFICES ASSUME Inv, pc = "select", NEW k \in Occupied(upload_pool)
               PROVE  upload_pool.connections[k].next
                      - upload_pool.connections[k].available \in {1, 2}
    BY DEF AtMostOneSkipped, At
  <2> DEFINE c == upload_pool.connections[k]
  <2>1. c.next \in Int /\ c.available \in Nat
    <3>1. c \in UploadConnection
      BY PoolsAt, PoolSlots DEF Inv
    <3> QED
      BY <3>1, CHUNK_SIZE_Assumption DEF UploadConnection
  <2>2. c.next <= c.available + 2 /\ c.next > c.available
    BY DEF Inv, WindowOK, Sending
  <2> HIDE DEF c
  <2>3. c.next - c.available \in {1, 2}
    BY <2>1, <2>2
  <2> QED
    BY <2>3 DEF c
<1> QED
  BY <1>1, InvIsInvariant, PTL

\* update_provider marks a chunk before its connection is made, save_data judges
\* it before its connection is freed, and a signal may give the connection up
\* anywhere between.  Between packets a chunk is DOWNLOADING exactly while one
\* connection is there for it.
THEOREM TableMatchesPool == Spec => []DownloadingIffConnected
<1>1. Inv => DownloadingIffConnected
  <2> SUFFICES ASSUME Inv, pc = "select", NEW h \in Hash
               PROVE  LET slots == {k \in Occupied(download_pool) :
                                       download_pool.connections[k].sha1 = h}
                      IN  /\ statuses[h] = "DOWNLOADING" <=> slots # {}
                          /\ \A k, l \in slots : k = l
    BY DEF DownloadingIffConnected, At
  <2>1. Promised = {} /\ Judged = {}
    BY DEF Promised, Judged
  <2> QED
    BY <2>1 DEF Inv, TableOK
<1> QED
  BY <1>1, InvIsInvariant, PTL

\* process_DATA forgets the timeouts of a connection before it saves its chunk,
\* and fewer signals can come until it removes the connection than give one up:
\* the timer has a period of a second, and OVERTIME_LIMIT is five.  So no signal
\* makes a chunk that was just saved NOT_DOWNLOADED again.
THEOREM SavedIsFinal ==
    ASSUME MaxSignals <= OVERTIME_LIMIT
    PROVE  Spec => DoneIsFinal
<1>1. ASSUME Inv, [Next]_vars, NEW h \in Hash, statuses[h] = "DONE"
      PROVE  statuses'[h] = "DONE"
  <2>1. \A k \in Occupied(download_pool) :
          download_pool.connections[k].sha1 = h => k \in Judged
    BY <1>1 DEF Inv, TableOK
  <2>2. CASE UNCHANGED statuses
    BY <1>1, <2>2
  <2>3. CASE Provide
    BY <1>1, <2>3 DEF Provide, Inv, TypeOK
  <2>4. CASE SaveData
    <3>1. pc = "save" /\ Connected(download_pool, pkt.peer)
      BY <2>4 DEF SaveData, At
    <3>2. /\ Downloads
          /\ \A k \in SlotsOf(download_pool, pkt.peer) :
              download_pool.connections[k] = Connection
      BY <1>1, <3>1, ReadingConnection
    <3>3. Judged = {}
      BY <3>1 DEF Judged
    <3>4. PICK k \in SlotsOf(download_pool, pkt.peer) : TRUE
      BY <3>1 DEF Connected
    <3>5. k \in Occupied(download_pool)
      BY <3>4 DEF SlotsOf
    <3>6. Connection.sha1 # h
      BY <2>1, <3>2, <3>3, <3>4, <3>5
    <3> QED
      BY <1>1, <2>4, <3>6 DEF SaveData, Inv, TypeOK
  <2>5. CASE SIGALRM
    <3>1. PICK up \in SUBSET (Occupied(upload_pool) \ FreedUpload),
               down \in SUBSET (Occupied(download_pool) \ FreedDownload) :
               HandleTimeout(up, down)
      BY <2>5 DEF SIGALRM
    <3>2. ASSUME NEW k \in GivenUp(download_pool, down),
                 download_pool.connections[k].sha1 = h
          PROVE  FALSE
      <4>1. /\ k \in down /\ k \in Occupied(download_pool) /\ k \notin FreedDownload
            /\ download_pool.connections[k].overtime_count + 1 > OVERTIME_LIMIT
        BY DEF GivenUp
      <4>2. /\ Downloads /\ pc \in {"remove", "freed"}
            /\ k \in SlotsOf(download_pool, pkt.peer)
        BY <2>1, <3>2, <4>1 DEF Judged
      <4>3. pc = "remove"
        BY <4>1, <4>2 DEF FreedDownload
      <4>4. download_pool.connections[k].overtime_count <= signals
        BY <1>1, <4>2, <4>3 DEF Inv, StampedOK
      <4>5. signals < MaxSignals
        BY <2>5, <4>3 DEF SIGALRM, Interruptible
      <4>6. /\ download_pool.connections[k].overtime_count \in Nat
            /\ signals \in Nat /\ MaxSignals \in Nat /\ OVERTIME_LIMIT \in Nat
        BY <1>1, <4>1, PoolsAt, PoolSlots, SignalRace_Assumption,
           OVERTIME_LIMIT_Assumption DEF Inv, TypeOK, DownloadConnection
      <4> QED
        BY <4>1, <4>4, <4>5, <4>6
    <3> QED
      BY <1>1, <3>1, <3>2 DEF HandleTimeout, Reopened
  <2>6. Reads => UNCHANGED statuses
    BY ReadsNothing
  <2> QED
    BY <1>1, <2>2, <2>3, <2>4, <2>5, <2>6
       DEF Next, Reads, vars, ClearSlot, Uncount, FillSlot, Count, StoreNext, CopyData,
           Stamp, CloseUpload, Acknowledge, StoreDuplicates, Retransmit
<1>2. Inv /\ [Next]_vars
      => [\A h \in Hash : statuses[h] = "DONE" => statuses'[h] = "DONE"]_vars
  BY <1>1
<1> QED
  BY <1>2, InvIsInvariant, PTL DEF Spec, DoneIsFinal
=============================================================================
