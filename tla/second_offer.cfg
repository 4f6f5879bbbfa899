\* Two uploaders offer the same chunk to a peer with room for two connections,
\* over a network that loses nothing.
SPECIFICATION Spec
CONSTANTS
    NULL = NULL
    d = d
    u = u
    v = v
    A = A
    B = B
    Peer = {d, u, v}
    Hash = {A, B}
    CHUNK_SIZE = 2
    WINDOW = 1
    MAX_CHUNKS_NUM = 2
    QUEUE_MAX = 2
    OVERTIME_LIMIT = 1
    DUPLICATE_LIMIT = 2
    chunks_IHAVE <- Sources
    ChunkFiles <- OneChunk
    max_conn <- TwoForD
    Reordered = FALSE
    LossyTypes = {"WHOHAS", "IHAVE", "GET", "DATA", "ACK"}
    Patient = TRUE
    Overlap = FALSE
    Mortal = {}
    MaxLoss = 0
    MaxDuplicate = 0
    MaxDeath = 0
    MaxGet = 1
INVARIANTS
    NobodyCrashes
CHECK_DEADLOCK FALSE
