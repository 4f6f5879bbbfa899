------------------------------ MODULE MCSwarm -------------------------------
(***************************************************************************)
(* Values for the constants of Swarm: who has which chunks, who may ask    *)
(* for which file, and how many connections each peer allows.              *)
(***************************************************************************)
EXTENDS Swarm

CONSTANTS
    d,               \* a peer that downloads
    u, v,            \* peers that upload
    A, B             \* hashes

\* Every uploader has both chunks, the downloader has none.
Sources == [p \in Peer |-> IF p = d THEN {} ELSE {A, B}]

\* Each chunk has one source.
Split ==
    [p \in Peer |-> IF p = u THEN {A} ELSE IF p = v THEN {B} ELSE {}]

TwoForD == [p \in Peer |-> IF p = d THEN 2 ELSE 1]

\* u has everything; v has A, and wants B; d wants A.
SharedByV == [p \in Peer |-> IF p = u THEN {A, B} ELSE IF p = v THEN {A} ELSE {}]
Contest == [p \in Peer |-> IF p = d THEN {<<A>>} ELSE IF p = v THEN {<<B>>} ELSE {}]

OneChunk == [p \in Peer |-> IF p = d THEN {<<A>>} ELSE {}]
TwoChunks == [p \in Peer |-> IF p = d THEN {<<A, B>>} ELSE {}]

OneConnection == [p \in Peer |-> 1]
=============================================================================
