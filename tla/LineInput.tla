----------------------------- MODULE LineInput ------------------------------
(***************************************************************************)
(* What input_buffer.c promises its callback: the lines the user typed,    *)
(* one at a time, in order, each once, without its newline.                *)
(***************************************************************************)
EXTENDS Integers, Sequences

CONSTANTS NL         \* the newline character

VARIABLES
    unread,          \* what was typed and not handed over
    lines            \* the lines handed over

\* The first line of unread, which ends at its n-th character.
HandOver(n) ==
    /\ unread[n] = NL
    /\ \A k \in 1 .. n - 1 : unread[k] # NL
    /\ lines' = Append(lines, SubSeq(unread, 1, n - 1))
    /\ unread' = SubSeq(unread, n + 1, Len(unread))

Init == lines = <<>>

Next == \E n \in DOMAIN unread : HandOver(n)

Spec == Init /\ [][Next]_<<unread, lines>>
=============================================================================
