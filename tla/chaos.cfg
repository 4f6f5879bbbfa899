\* Two chunks from one uploader over a network that reorders and duplicates, and
\* loses what does not fit its queues, with timers that fire at any moment.  A
\* packet that is overtaken for good stands for one that is lost on the way.
SPECIFICATION Spec
CONSTANTS
    NULL = NULL
    d = d
    u = u
    v = v
    A = A
    B = B
    Peer = {d, u}
    Hash = {A, B}
    CHUNK_SIZE = 2
    WINDOW = 1
    MAX_CHUNKS_NUM = 2
    QUEUE_MAX = 2
    OVERTIME_LIMIT = 1
    DUPLICATE_LIMIT = 2
    chunks_IHAVE <- Sources
    ChunkFiles <- TwoChunks
    max_conn <- OneConnection
    Reordered = TRUE
    LossyTypes = {"WHOHAS", "IHAVE", "GET", "DATA", "ACK"}
    Patient = FALSE
    Overlap = FALSE
    Mortal = {}
    MaxLoss = 0
    MaxDuplicate = 1
    MaxDeath = 0
    MaxGet = 1
INVARIANTS
    TypeOK
    PoolsConsistent
    DownloadingIffConnected
    TimerCoversConnections
    DoneIsIntact
PROPERTIES
    DoneIsFinal
    ImplementsDownload
CHECK_DEADLOCK FALSE
