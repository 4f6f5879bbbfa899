\* A request for 63 chunks, between the ends of one link.
SPECIFICATION Spec
CONSTANTS
    NRouters = 2
    INFINITY = 65535
    QUEUEMAX = 2
    nodes_map <- OneMachine
    Unknown = Unknown
    Flows <- OneFlow
    Messages <- Request63
INVARIANTS
    DatagramsAreWhole
CHECK_DEADLOCK FALSE
