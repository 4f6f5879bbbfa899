\* Two chunks from one uploader over a network that loses packets of the
\* transfers but keeps their order, with timers longer than a round trip.
SPECIFICATION FairSpec
CONSTANTS
    NULL = NULL
    d = d
    u = u
    v = v
    A = A
    B = B
    Peer = {d, u}
    Hash = {A, B}
    CHUNK_SIZE = 6
    WINDOW = 4
    MAX_CHUNKS_NUM = 2
    QUEUE_MAX = 9
    OVERTIME_LIMIT = 9
    DUPLICATE_LIMIT = 3
    chunks_IHAVE <- Sources
    ChunkFiles <- TwoChunks
    max_conn <- OneConnection
    Reordered = FALSE
    LossyTypes = {"GET", "DATA", "ACK"}
    Patient = TRUE
    Overlap = FALSE
    Mortal = {}
    MaxLoss = 3
    MaxDuplicate = 0
    MaxDeath = 0
    MaxGet = 1
INVARIANTS
    NothingMixed
    AckedIsReceived
    WindowIsSent
PROPERTIES
    EveryGetCompletes
    UploadsEnd
CHECK_DEADLOCK FALSE
