\* A user at a terminal, with at most half of the buffer waiting at any time, or
\* a pipe that fills the buffer up, so that stale newlines are found.
SPECIFICATION FairSpec
CONSTANTS
    NUL = NUL
    NL = NL
    a = a
    b = b
    Letter = {a, b}
    USERBUF_SIZE = 7
    UNSIGNED = 100
    Terminal <- ShortLines
    Half <- HalfOfBuffer
    Pipe <- AnyLines
INVARIANTS
    TypeOK
PROPERTIES
    TypedLinesAreHandedOver
    EveryLineComes
CHECK_DEADLOCK FALSE
