---------------------------- MODULE MCInputBuffer ---------------------------
(***************************************************************************)
(* What may be written to InputBuffer.                                     *)
(***************************************************************************)
EXTENDS InputBuffer, SequencesExt

CONSTANTS a, b       \* letters

\* Up to three lines, which fit half of the buffer each.  A terminal accepts
\* 4095 characters and a newline in a line, half of the 8191 of the buffer.
HalfOfBuffer == (USERBUF_SIZE + 1) \div 2

ShortLines ==
    LET Line == {Append(s, NL) : s \in BoundedSeq(Letter, HalfOfBuffer - 1)}
    IN  {FlattenSeq(s) : s \in BoundedSeq(Line, 3)}

\* Lines of any length, that overfill the buffer among them.
AnyLines == [1 .. USERBUF_SIZE + 1 -> {a, NL}]

Nothing == {}
=============================================================================
