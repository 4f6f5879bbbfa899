\* All connected topologies of four routers.
SPECIFICATION FairSpec
CONSTANTS
    NRouters = 4
    INFINITY = 65535
    QUEUEMAX = 2
    nodes_map <- OneMachine
    Unknown = Unknown
    Flows <- ThreeFlows
    Messages <- OneOfEach
INVARIANTS
    RoutesAreShortest
PROPERTIES
    ImplementsChannel
    PacketsLeave
CHECK_DEADLOCK FALSE
