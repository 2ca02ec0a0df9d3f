SPECIFICATION FairSpec
CONSTANTS
    Word = {"", "sport", "golf"}
    HashMixed = {"sport#"}
    PlusMixed = {"sport+"}
    MaxLevels = 3
INVARIANTS
    TypeOK
    ComputesMatches
    PassesAgree
PROPERTIES
    Terminates
CHECK_DEADLOCK FALSE
