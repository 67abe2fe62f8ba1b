SPECIFICATION FairSpec
CONSTANTS
    SaltSpace = 8
    MAX_ITERATIONS = 5
    CHUNK_SIZE = 2
    NoSalt = NoSalt
CHECK_DEADLOCK FALSE
INVARIANTS
    TypeOK
PROPERTIES
    EverySearchEnds
    ImplementsAnyMatch
