--------------------------- MODULE ConnectionPool ---------------------------
(***************************************************************************)
(* connection_pool.c: the download pool and the upload pool of a peer, and *)
(* the send window of an upload connection.                                *)
(*                                                                         *)
(* A pool is the record [connections, size] of the C structures: an array  *)
(* of config.max_conn slots, each NULL or a connection, and the counter    *)
(* the admission tests read instead of looking at the slots.  The two      *)
(* pools of the code differ only in the type of a connection, so add,      *)
(* remove and find are written once for both.                              *)
(***************************************************************************)
EXTENDS Integers, FiniteSetsExt

CONSTANTS
    NULL,            \* the empty slot
    CHUNK_SIZE,      \* DATA packets of a chunk (512)
    WINDOW           \* packets in flight of an upload connection (64)

ASSUME CHUNK_SIZE_Assumption == CHUNK_SIZE \in Nat \ {0}
ASSUME WINDOW_Assumption == WINDOW \in 1 .. CHUNK_SIZE

-----------------------------------------------------------------------------
(* The pools. *)

\* The pools of n slots for this type of connections.
PoolOf(n, Connection) ==
    [connections : [0 .. n - 1 -> Connection \cup {NULL}], size : Int]

EmptyPool(max_conn) ==
    [connections |-> [i \in 0 .. max_conn - 1 |-> NULL], size |-> 0]

Occupied(pool) ==
    {i \in DOMAIN pool.connections : pool.connections[i] # NULL}

FreeSlots(pool) == DOMAIN pool.connections \ Occupied(pool)

\* The slots whose connection is with this peer.
SlotsOf(pool, peer) ==
    {i \in Occupied(pool) : pool.connections[i].peer = peer}

Connected(pool, peer) == SlotsOf(pool, peer) # {}

\* find_*_connection: the connection in the first slot of the peer.
Find(pool, peer) == pool.connections[Min(SlotsOf(pool, peer))]

\* The counter, which is all that admits a connection, is the number of
\* connections, and no peer has two of them, so that finding and removing a
\* connection by its peer reaches the right one.
Consistent(pool) ==
    /\ pool.size = Cardinality(Occupied(pool))
    /\ \A j, k \in Occupied(pool) :
        pool.connections[j].peer = pool.connections[k].peer => j = k

\* Mutant: the counter taken for the first free slot.
AddAtSize(pool, connection) ==
    [connections |->
        [k \in DOMAIN pool.connections |->
            IF k = pool.size THEN connection ELSE pool.connections[k]],
     size |-> pool.size + 1]

\* add_to_*_pool: the first free slot; the counter moves even without one.
AddTo(pool, connection) ==
    [connections |->
        IF FreeSlots(pool) = {} THEN pool.connections
        ELSE [pool.connections EXCEPT ![Min(FreeSlots(pool))] = connection],
     size |-> pool.size + 1]

\* Mutant: the slot is emptied, the counter stays.
RemoveUncounted(pool, peer) ==
    IF ~Connected(pool, peer) THEN pool
    ELSE [pool EXCEPT !.connections[Min(SlotsOf(pool, peer))] = NULL]

\* remove_from_*_pool: the first slot of the peer, if there is one.
RemoveFrom(pool, peer) ==
    IF ~Connected(pool, peer) THEN pool
    ELSE [connections |->
             [pool.connections EXCEPT ![Min(SlotsOf(pool, peer))] = NULL],
          size |-> pool.size - 1]

\* Writes through the pointer a find_*_connection call returned.
Update(pool, peer, connection) ==
    [pool EXCEPT !.connections[Min(SlotsOf(pool, peer))] = connection]

-----------------------------------------------------------------------------
(* Connections. *)

\* init_download_connection.  position is expected_seq - 1 packets; of the
\* data read so far only its provenance matters: intact is whether all of it
\* belongs to the chunk the connection is for.
NewDownload(peer, sha1) ==
    [peer |-> peer, sha1 |-> sha1, expected_seq |-> 1, intact |-> TRUE,
     overtime_count |-> 0]

\* init_upload_connection; sha1 is the chunk that was cut into pkts.
NewUpload(peer, sha1) ==
    [peer |-> peer, sha1 |-> sha1, last_acked |-> 0, next |-> 1,
     available |-> WINDOW, duplicate_num |-> 0, overtime_count |-> 0]

\* The last packet that may be in flight once last_acked is acknowledged.
Available(last_acked) ==
    IF last_acked + WINDOW <= CHUNK_SIZE THEN last_acked + WINDOW
    ELSE CHUNK_SIZE

\* Mutant: the loop stops one packet early (< for <=).
SentButLast(c) ==
    [c EXCEPT !.next = IF @ < c.available THEN c.available ELSE @]

\* send_DATAs leaves next behind the last packet it may send.
Sent(c) ==
    [c EXCEPT !.next = IF @ <= c.available THEN c.available + 1 ELSE @]
=============================================================================
