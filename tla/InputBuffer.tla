---------------------------- MODULE InputBuffer -----------------------------
(***************************************************************************)
(* input_buffer.c: what is read from standard input is collected in a      *)
(* buffer, and every line that is complete is handed to a callback.        *)
(*                                                                         *)
(* The buffer is a C string of at most USERBUF_SIZE bytes: strchr finds a  *)
(* newline wherever it is in front of the first NUL, not only in front of  *)
(* cur, and memmove leaves the bytes behind what it moved as they were.    *)
(***************************************************************************)
EXTENDS Integers, Sequences, FiniteSetsExt

CONSTANTS
    NUL, NL, Letter, \* the bytes 0 and newline, and the others
    USERBUF_SIZE,    \* 8191
    UNSIGNED,        \* the range of cur, an unsigned int (2^32)
    Terminal,        \* what may be typed at a terminal, ...
    Half,            \* ... from which no more than this waits in the buffer
    Pipe             \* what a program may write to a pipe, as fast as it likes

ASSUME Buffer_Assumption ==
    /\ USERBUF_SIZE \in Nat \ {0} /\ UNSIGNED \in Nat /\ UNSIGNED > USERBUF_SIZE
    /\ NUL # NL /\ {NUL, NL} \cap Letter = {}
    /\ Half \in 1 .. USERBUF_SIZE
    /\ Terminal \cup Pipe \subseteq Seq(Letter \cup {NL})

VARIABLES
    buf, cur,        \* struct user_iobuf
    pc,              \* in select, in the loop over the lines, or exited
    burst,           \* how many bytes that wait for a newline or for the loop
                     \* over the lines there ever are
    input,           \* what is typed and not read yet
    lines            \* the arguments of handle_line so far

vars == <<buf, cur, pc, burst, input, lines>>

\* create_userbuf: the buffer is zeroed.
Init ==
    /\ buf = [i \in 0 .. USERBUF_SIZE |-> NUL]
    /\ cur = 0
    /\ pc = "select"
    /\ \/ burst = Half /\ input \in Terminal
       \/ burst = USERBUF_SIZE /\ input \in Pipe
    /\ lines = <<>>

-----------------------------------------------------------------------------
\* Mutant: the byte for the terminating NUL is read into as well.
ReadableAll ==
    1 .. Min({USERBUF_SIZE + 1 - cur, Len(input)})

\* The lengths read() may return: as much as there is room for and has arrived.
Readable ==
    1 .. Min({USERBUF_SIZE - cur, Len(input), burst - cur})

BufferFull ==
    /\ pc = "select"
    /\ input # <<>>
    /\ cur >= USERBUF_SIZE - 1
    /\ pc' = "exited"
    /\ UNCHANGED <<buf, cur, burst, input, lines>>

Read ==
    /\ pc = "select"
    /\ cur < USERBUF_SIZE - 1
    /\ \E n \in Readable :
        /\ buf' = [i \in DOMAIN buf |->
                      IF i \in cur .. cur + n - 1 THEN input[i - cur + 1] ELSE buf[i]]
        /\ cur' = cur + n
        /\ input' = SubSeq(input, n + 1, Len(input))
    /\ pc' = "split"
    /\ UNCHANGED <<burst, lines>>

\* strchr: the newlines in front of the first NUL.
Newlines ==
    {k \in DOMAIN buf : buf[k] = NL /\ \A i \in 0 .. k : buf[i] # NUL}

\* Mutant: as many bytes are moved as the line has.
MovedShort(k) ==
    [i \in DOMAIN buf |-> IF i < k /\ i + k < USERBUF_SIZE THEN buf[i + k + 1]
                          ELSE IF i = k THEN NUL ELSE buf[i]]

\* The k-th byte, the newline, is set to 0, and then what follows it is moved:
\* memmove(buf, ret + 1, USERBUF_SIZE - k).
Moved(k) ==
    [i \in DOMAIN buf |->
        IF i < USERBUF_SIZE - k THEN buf[i + k + 1] ELSE IF i = k THEN NUL ELSE buf[i]]

\* Mutant: the newline is not counted.
LeftWithNewline(k) == (cur - k) % UNSIGNED

\* The subtraction is one of unsigned numbers.
Left(k) == (cur - (k + 1)) % UNSIGNED

HandleLine ==
    /\ pc = "split"
    /\ Newlines # {}
    /\ LET k == Min(Newlines)
       IN  /\ lines' = Append(lines, [i \in 1 .. k |-> buf[i - 1]])
           /\ buf' = Moved(k)
           /\ cur' = Left(k)
    /\ UNCHANGED <<pc, burst, input>>

NoMoreLines ==
    /\ pc = "split"
    /\ Newlines = {}
    /\ pc' = "select"
    /\ UNCHANGED <<buf, cur, burst, input, lines>>

Next == BufferFull \/ Read \/ HandleLine \/ NoMoreLines

Spec == Init /\ [][Next]_vars

\* The select loop calls process_user_input as long as there is input.
FairSpec == Spec /\ WF_vars(Next)

-----------------------------------------------------------------------------
\* The buffer stays a C string, whatever is read: its last byte is NUL, which
\* is where strchr stops and the last byte that memmove copies.
TypeOK ==
    /\ buf \in [0 .. USERBUF_SIZE -> Letter \cup {NUL, NL}]
    /\ buf[USERBUF_SIZE] = NUL
    /\ cur \in 0 .. UNSIGNED - 1
    /\ pc \in {"select", "split", "exited"}
    /\ input \in Seq(Letter \cup {NL})

\* What is in the buffer in front of cur.
Contents ==
    [i \in 1 .. Min({cur, USERBUF_SIZE}) |-> buf[i - 1]]

Lines == INSTANCE LineInput WITH unread <- Contents \o input

\* Each line that is written is handed over once, as it was, in order, and
\* nothing else is: no byte that memmove left behind is taken for input.
HandsOverLines == Lines!Spec

AtTerminal == burst = Half

\* That is so for whatever is typed at a terminal.
TypedLinesAreHandedOver ==
    lines = <<>> /\ [][AtTerminal => Lines!Next]_<<Contents \o input, lines>>

\* Every line typed at a terminal is handed over in the end; the process does
\* not exit before, as it would if it believed its buffer to be full.
EveryLineComes ==
    AtTerminal => <>(pc = "select" /\ \A i \in DOMAIN input : input[i] # NL)
=============================================================================
