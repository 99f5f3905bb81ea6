SPECIFICATION FairSpec
CONSTANTS
    QueueLimit = 2
    Chunk = 1
    AskedKinds <- Kinds
    MaxPoints = 3
    MaxAsks = 2
    MaxFaults = 1
INVARIANTS
    NothingLostQuietly
    OldestFirst
    ToldIsTrue
CHECK_DEADLOCK FALSE
PROPERTIES
    BacklogDrains
