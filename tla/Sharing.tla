------------------------------ MODULE Sharing -------------------------------
(***************************************************************************)
(* How a file becomes chunks and chunks become a file: make_chunks cuts    *)
(* it and lists the hashes, a peer finds in its copy what a hash stands    *)
(* for, and what was downloaded is hashed, and written.                    *)
(*                                                                         *)
(* A file is a sequence of parts, of 1024 bytes each: what a DATA packet   *)
(* carries.  Hashes are listed in hexadecimal, converted character by      *)
(* character.                                                              *)
(***************************************************************************)
EXTENDS Integers, Sequences, FiniteSetsExt

CONSTANTS
    Part,            \* what 1024 bytes can be
    CHUNK_SIZE,      \* parts of a chunk (512)
    SHA1_HASH_SIZE,  \* bytes of a hash (20)
    shahash(_)       \* the SHA-1 of a sequence of parts, as a sequence of bytes

Byte == 0 .. 255

-----------------------------------------------------------------------------
(* Hexadecimal. *)

\* A digit of "%.2x": '0' is 48 and 'a' is 97.
Digit(n) == IF n < 10 THEN 48 + n ELSE 87 + n

binary2hex(buf) ==
    [k \in 1 .. 2 * Len(buf) |->
        LET byte == buf[(k + 1) \div 2]
        IN  Digit(IF k % 2 = 1 THEN byte \div 16 ELSE byte % 16)]

toupper(c) == IF c \in 97 .. 122 THEN c - 32 ELSE c

\* '9' is 57, and 'A' - 0x0A is 55.
DigitValue(c) ==
    LET hex == toupper(c) IN IF hex <= 57 THEN hex - 48 ELSE hex - 55

hex2binary(hex, len) ==
    [k \in 1 .. len \div 2 |->
        16 * DigitValue(hex[2 * k - 1]) + DigitValue(hex[2 * k])]

-----------------------------------------------------------------------------
(* make_chunks *)

\* The number of chunks, the last of which may be short.
get_numchunks(file) == (Len(file) + CHUNK_SIZE - 1) \div CHUNK_SIZE

\* What the i-th fread of make_chunks finds in a file, from 0.
Block(file, i) ==
    LET length == Min({CHUNK_SIZE, Len(file) - i * CHUNK_SIZE})
    IN  [n \in 1 .. length |-> file[i * CHUNK_SIZE + n]]

\* A line that sscanf reads as an id and a hash.
ChunkLine(id, sha1) == [read |-> TRUE, id |-> id, hex |-> binary2hex(sha1)]

\* What make_chunks prints, and users put into chunk files.
ChunkLines(file) ==
    [k \in 1 .. get_numchunks(file) |-> ChunkLine(k - 1, shahash(Block(file, k - 1)))]

-----------------------------------------------------------------------------
(* Chunk files.  Lines that sscanf does not read are skipped. *)

Entries(lines, first) == {k \in first .. Len(lines) : lines[k].read}

HashAt(line) == hex2binary(line.hex, 2 * SHA1_HASH_SIZE)

\* init_master_chunks: two lines precede the chunks.  The first entry with a
\* hash gives its id; a hash that is not listed leaves id uninitialised.
LinesWith(master, sha1) == {k \in Entries(master, 3) : HashAt(master[k]) = sha1}

Ids(master, sha1) ==
    IF LinesWith(master, sha1) = {} THEN Int
    ELSE {master[Min(LinesWith(master, sha1))].id}

Kth(S, n) == CHOOSE k \in S : Cardinality({j \in S : j <= k}) = n

\* init_chunks_to_get: every line counts, but only those that are read fill an
\* entry of the table.  The others have whatever was in that memory.
TableOf(lines, memory) ==
    [i \in 1 .. Len(lines) |->
        IF i <= Cardinality(Entries(lines, 1))
        THEN HashAt(lines[Kth(Entries(lines, 1), i)])
        ELSE memory[i]]

-----------------------------------------------------------------------------
(* What is sent, kept and written. *)

\* make_chunk_data_to_packets reads CHUNK_SIZE parts from where the chunk
\* begins.  Behind the end of the file, fread leaves data as it was.
Sent(file, id, data) ==
    LET start == id * CHUNK_SIZE
    IN  [n \in 1 .. CHUNK_SIZE |->
            IF start + n <= Len(file) THEN file[start + n]
            ELSE IF start < Len(file) THEN file[Len(file)]
            ELSE data]

\* save_data: the chunk is DONE if what came in its 512 packets has its hash.
Kept(sha1, data) == shahash(data) = sha1

\* The output file: the data of the chunks, one behind the other.
Output(chunks_data) ==
    [x \in 1 .. Len(chunks_data) * CHUNK_SIZE |->
        chunks_data[(x - 1) \div CHUNK_SIZE + 1][((x - 1) % CHUNK_SIZE) + 1]]
=============================================================================
