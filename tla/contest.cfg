\* u serves one peer at a time.  d wants a chunk that u and v have, v wants one
\* that only u has, and v may be killed, twice, as a source and as a user.
SPECIFICATION FairSpec
CONSTANTS
    NULL = NULL
    d = d
    u = u
    v = v
    A = A
    B = B
    Peer = {d, u, v}
    Hash = {A, B}
    CHUNK_SIZE = 2
    WINDOW = 1
    MAX_CHUNKS_NUM = 2
    QUEUE_MAX = 4
    OVERTIME_LIMIT = 2
    DUPLICATE_LIMIT = 2
    chunks_IHAVE <- SharedByV
    ChunkFiles <- Contest
    max_conn <- OneConnection
    Reordered = FALSE
    LossyTypes = {"WHOHAS", "IHAVE", "GET", "DATA", "ACK"}
    Patient = TRUE
    Overlap = FALSE
    Mortal = {v}
    MaxLoss = 0
    MaxDuplicate = 0
    MaxDeath = 2
    MaxGet = 1
PROPERTIES
    EveryGetCompletes
CHECK_DEADLOCK FALSE
