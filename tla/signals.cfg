\* Two connections in each direction for three peers, and a signal in any handler.
SPECIFICATION Spec
CONSTANTS
    NULL = NULL
    Peer = {q, r, s}
    Hash = {A, B}
    CHUNK_SIZE = 2
    WINDOW = 1
    OVERTIME_LIMIT = 1
    DUPLICATE_LIMIT = 2
    max_conn = 2
    MaxSignals = 1
SYMMETRY Symmetry
INVARIANTS
    AdmittedFindsSlot
    TimerCoversConnections
    AtMostOneSkipped
    DownloadingIffConnected
PROPERTIES
    DoneIsFinal
CHECK_DEADLOCK FALSE
