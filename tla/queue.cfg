SPECIFICATION FairSpec
CONSTANTS
    reader = reader
    shard1 = shard1
    shard2 = shard2
    Producer <- MCProducer
    Reader = reader
    Capacity = 2
    MaxPush = 5
INVARIANTS
    TypeOK
    ItemsAreNewest
    TakenInOrder
    OnlyOverflowLost
    NoLostPush
    FlushBeforeExit
PROPERTIES
    EventLeaves
    ImplementsDropOldest
CHECK_DEADLOCK FALSE
