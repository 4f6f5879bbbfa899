\* As signals.cfg: a pool that refuses a peer although it has a free slot.
SPECIFICATION Spec
CONSTANTS
    NULL = NULL
    Peer = {q, r}
    Hash = {A}
    CHUNK_SIZE = 2
    WINDOW = 1
    OVERTIME_LIMIT = 1
    DUPLICATE_LIMIT = 2
    max_conn = 2
    MaxSignals = 1
PROPERTIES
    RefusedOnlyWhenFull
CHECK_DEADLOCK FALSE
