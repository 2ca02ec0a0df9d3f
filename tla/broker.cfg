SPECIFICATION MCSpec
CONSTANTS
    c1 = 1
    c2 = 2
    c3 = 3
    c4 = 4
    c5 = 5
    c6 = 6
    c7 = 7
    c8 = 8
    Conn = {1, 2, 3, 4, 5, 6, 7, 8}
    N = 2
    Topic <- MCTopic
    Filter <- MCFilter
    Script <- MCScript
    IsWildcardFilter <- MCIsWildcard
    topic_matches_filter <- MCMatches
    shard_for_topic <- MCShardForTopic
INVARIANTS
    TypeOK
    AtMostOnce
    SameTopicOrder
    PublisherOrder
    RetainedReachesAll
    NoResidue
    KnownBeforeSubscribed
    SubackIsBarrier
    UnsubackIsBarrier
PROPERTIES
    NoPushAfterCleanup
CHECK_DEADLOCK FALSE
