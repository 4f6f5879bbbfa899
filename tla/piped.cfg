\* Several lines in one read, from a pipe.
SPECIFICATION FairSpec
CONSTANTS
    NUL = NUL
    NL = NL
    a = a
    b = b
    Letter = {a}
    USERBUF_SIZE = 5
    UNSIGNED = 100
    Terminal <- Nothing
    Half <- HalfOfBuffer
    Pipe <- AnyLines
PROPERTIES
    HandsOverLines
CHECK_DEADLOCK FALSE
