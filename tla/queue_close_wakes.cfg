SPECIFICATION FairSpec
CONSTANTS
    reader = reader
    shard1 = shard1
    shard2 = shard2
    Producer <- MCProducer
    Reader = reader
    Capacity = 2
    MaxPush = 3
PROPERTIES
    ClosedWriterExits
CHECK_DEADLOCK FALSE
