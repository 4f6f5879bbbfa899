\* Two connections at a time, each chunk with one source, one peer that may be
\* killed and started again, and a user who asks twice.
SPECIFICATION Spec
CONSTANTS
    NULL = NULL
    d = d
    u = u
    v = v
    A = A
    B = B
    Peer = {d, u, v}
    Hash = {A, B}
    CHUNK_SIZE = 2
    WINDOW = 1
    MAX_CHUNKS_NUM = 2
    QUEUE_MAX = 2
    OVERTIME_LIMIT = 1
    DUPLICATE_LIMIT = 2
    chunks_IHAVE <- Split
    ChunkFiles <- TwoChunks
    max_conn <- TwoForD
    Reordered = FALSE
    LossyTypes = {"WHOHAS", "IHAVE", "GET", "DATA", "ACK"}
    Patient = TRUE
    Overlap = FALSE
    Mortal = {d, u}
    MaxLoss = 2
    MaxDuplicate = 0
    MaxDeath = 1
    MaxGet = 2
INVARIANTS
    PoolsConsistent
    DownloadingIffConnected
PROPERTIES
    ImplementsDownload
CHECK_DEADLOCK FALSE
