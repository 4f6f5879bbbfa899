------------------------------- MODULE Chunks -------------------------------
(***************************************************************************)
(* process_chunks.c: the table of the chunks a user asked for, and what    *)
(* the packet handlers read from it and write to it.                       *)
(*                                                                         *)
(* A chunk file is a sequence of hashes.  The table is read by scanning it *)
(* for the first entry with a given hash, so what a hash stands for is     *)
(* the first of its indices.                                               *)
(***************************************************************************)
EXTENDS Integers, Sequences, FiniteSetsExt

CONSTANTS
    Hash,            \* the SHA-1 values of chunks
    MAX_CHUNKS_NUM   \* hashes that fit in one WHOHAS or IHAVE (74)

ASSUME MAX_CHUNKS_NUM_Assumption == MAX_CHUNKS_NUM \in Nat \ {0}

Status == {"NOT_DOWNLOADED", "DOWNLOADING", "DONE"}

\* What is in chunks_data[i]: nothing yet, the chunk, or something else.
Content == {"none", "intact", "mixed"}

\* A chunk file whose request fits one packet.
ChunkFile == {f \in Seq(Hash) : Len(f) \in 1 .. MAX_CHUNKS_NUM}

\* The payload of WHOHAS and IHAVE: hashes, in the order of their positions.
\* A payload keeps the positions its hashes had in the sender's table, so
\* that leaving some of them out is restricting a function.
Payload == UNION {[S -> Hash] : S \in SUBSET (1 .. MAX_CHUNKS_NUM)}

Restricted(payload, S) == [k \in S |-> payload[k]]

-----------------------------------------------------------------------------
\* Entries with the hash; the scans of the code stop at the first.
IndicesOf(chunks, sha1) == {i \in DOMAIN chunks : chunks[i] = sha1}

Listed(chunks, sha1) == IndicesOf(chunks, sha1) # {}

IndexOf(chunks, sha1) == Min(IndicesOf(chunks, sha1))

\* make_chunks_to_packet: the hashes of the entries not asked for yet.
Wanted(chunks, statuses) ==
    Restricted(chunks, {i \in DOMAIN chunks : statuses[i] = "NOT_DOWNLOADED"})

\* process_WHOHAS with find_chunk: the offered part of a request.
OfferFrom(owned, payload) ==
    Restricted(payload, {k \in DOMAIN payload : payload[k] \in owned})

\* Mutant: a chunk that is DONE is taken for one to download.
NotUnderWay(chunks, statuses, payload) ==
    {k \in DOMAIN payload :
        /\ Listed(chunks, payload[k])
        /\ statuses[IndexOf(chunks, payload[k])] # "DOWNLOADING"}

\* update_provider: the positions of an IHAVE that can start a download. The
\* first of them does, and the others change nothing that is ever read.
Startable(chunks, statuses, payload) ==
    {k \in DOMAIN payload :
        /\ Listed(chunks, payload[k])
        /\ statuses[IndexOf(chunks, payload[k])] = "NOT_DOWNLOADED"}

Chosen(chunks, statuses, payload) ==
    payload[Min(Startable(chunks, statuses, payload))]

\* The status of the first entry with the hash is written.
WithStatus(chunks, statuses, sha1, s) ==
    IF Listed(chunks, sha1)
    THEN [statuses EXCEPT ![IndexOf(chunks, sha1)] = s]
    ELSE statuses

\* Mutant: the SHA-1 is not compared.
SavedUnchecked(intact) == "DONE"

\* The status save_data gives a chunk: the SHA-1 of what was received is
\* compared with the hash of the connection.
SavedStatus(intact) == IF intact THEN "DONE" ELSE "NOT_DOWNLOADED"

\* Mutant: a chunk that is under way counts as downloaded.
NoneOpen(statuses) == \A i \in DOMAIN statuses : statuses[i] # "NOT_DOWNLOADED"

AllDone(statuses) == \A i \in DOMAIN statuses : statuses[i] = "DONE"
=============================================================================
