SPECIFICATION ClientSpec
CONSTANTS
    sub = sub
    weak = weak
    pub = pub
    ret = ret
    slow = slow
    Conn = {sub, weak, pub, ret, slow}
    N = 1
    Topic = {"a"}
    Filter = {"a", "+"}
    Script <- MCScript
    IsWildcardFilter <- MCIsWildcard
    topic_matches_filter <- MCMatches
    shard_for_topic <- MCShardForTopic
    Number <- MCNumber
    ServerDefault <- MCServerDefault
    BenchDefault <- MCBenchDefault
    Client = {sub, weak, pub}
    Intent <- MCIntent
    CommandLines <- MCCommandLines
    Capacity = 2
    SocketBuffer = 1
    Faulty = {}
    Together <- MCTogether
INVARIANTS
    SubLoopsUntilInterrupted
CHECK_DEADLOCK FALSE
