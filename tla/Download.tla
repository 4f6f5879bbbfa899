------------------------------ MODULE Download ------------------------------
(***************************************************************************)
(* What the chunk table promises a user: a file that was asked for arrives *)
(* chunk by chunk, each chunk once and for good, and is written when the   *)
(* last one is there, every chunk in its place.  Connections, timers and   *)
(* the network are not mentioned.                                          *)
(***************************************************************************)
EXTENDS Naturals, Sequences

CONSTANTS
    Peer,
    ChunkFiles       \* ChunkFiles[p]: what p's user may ask for

VARIABLES
    asked,           \* the file p's user asked for last: a sequence of hashes
    got,             \* the indices of the chunks that p has of it
    output           \* what p wrote for it

vars == <<asked, got, output>>

Init ==
    /\ asked = [p \in Peer |-> <<>>]
    /\ got = [p \in Peer |-> {}]
    /\ output = [p \in Peer |-> <<>>]

\* A new request replaces the last one.
Ask(p, file) ==
    /\ asked' = [asked EXCEPT ![p] = file]
    /\ got' = [got EXCEPT ![p] = {}]
    /\ output' = [output EXCEPT ![p] = <<>>]

\* One more chunk; the file is written with the last.
Save(p, j) ==
    /\ j \in DOMAIN asked[p] \ got[p]
    /\ got' = [got EXCEPT ![p] = @ \cup {j}]
    /\ output' = [output EXCEPT ![p] =
           IF got[p] \cup {j} = DOMAIN asked[p] THEN asked[p] ELSE @]
    /\ UNCHANGED asked

\* p is started again.
Forget(p) == Ask(p, <<>>)

Next ==
    \E p \in Peer :
        \/ \E file \in ChunkFiles[p] : Ask(p, file)
        \/ \E j \in DOMAIN asked[p] : Save(p, j)
        \/ Forget(p)

Spec == Init /\ [][Next]_vars
=============================================================================
