SPECIFICATION Spec
CONSTANTS
    MaxLen = 5
    ChunkSize = 4
    Stream <- MCStream
    BodyOk <- MCBodyOk
INVARIANTS
    TypeOK
    ChunkingIrrelevant
    NothingStranded
    ErrorsAreFinal
CHECK_DEADLOCK FALSE
