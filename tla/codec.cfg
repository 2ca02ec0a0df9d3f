SPECIFICATION CodecSpec
CONSTANTS
    Lengths <- MCLengths
    from_utf8 <- MCFromUtf8
    validate_topic_filter <- MCValidFilter
    ClientPackets <- MCClientPackets
    BenchPackets <- MCBenchPackets
    BrokerPackets <- MCBrokerPackets
    OtherPackets <- MCOtherPackets
    Noise <- MCNoise
INVARIANTS
    TypeOK
    DecodesWhatWasEncoded
    CodecsAgree
    NothingMisread
    AcceptedIsWellFormed
    ForwardedIsReadable
CHECK_DEADLOCK FALSE
