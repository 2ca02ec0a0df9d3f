SPECIFICATION Spec
CONSTANTS
    Number <- MCNumber
    ServerDefault <- MCServerDefault
    BenchDefault <- MCBenchDefault
    Peer <- MCPeer
    ServerArgs <- MCServerArgs
    Unreachable <- MCUnreachable
    Channel = {1, 2}
    Capacity = 2
    BenchArgLists <- MCBenchArgLists
    Breaking <- MCBreaking
INVARIANTS
    ConfigIsLastValid
    UniqueIds
    NoLoss
PROPERTIES
    Finishes
CHECK_DEADLOCK FALSE
