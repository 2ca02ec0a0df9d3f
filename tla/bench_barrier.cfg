SPECIFICATION Spec
CONSTANTS
    Number <- MCNumber
    ServerDefault <- MCServerDefault
    BenchDefault <- MCBenchDefaultOne
    Peer <- MCPeerOne
    ServerArgs <- MCNoArgs
    Unreachable <- MCPeerOne
    Channel = {1}
    Capacity = 2
    BenchArgLists <- MCNoArgs
    Breaking = {}
PROPERTIES
    ErrorsAreReported
CHECK_DEADLOCK FALSE
