\* One uploader, one chunk, and one WHOHAS or IHAVE that is lost.
SPECIFICATION FairSpec
CONSTANTS
    NULL = NULL
    d = d
    u = u
    v = v
    A = A
    B = B
    Peer = {d, u}
    Hash = {A, B}
    CHUNK_SIZE = 2
    WINDOW = 1
    MAX_CHUNKS_NUM = 2
    QUEUE_MAX = 4
    OVERTIME_LIMIT = 1
    DUPLICATE_LIMIT = 2
    chunks_IHAVE <- Sources
    ChunkFiles <- OneChunk
    max_conn <- OneConnection
    Reordered = FALSE
    LossyTypes = {"WHOHAS", "IHAVE"}
    Patient = TRUE
    Overlap = FALSE
    Mortal = {}
    MaxLoss = 1
    MaxDuplicate = 0
    MaxDeath = 0
    MaxGet = 1
PROPERTIES
    EveryGetCompletes
CHECK_DEADLOCK FALSE
