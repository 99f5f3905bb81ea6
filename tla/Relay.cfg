SPECIFICATION FairSpec
CONSTANTS
    Zone = {m1}
    Loop = Loop
    QueueLimit = 2
    Chunk = 1
    AskedKinds = {"stop", "restart"}
    MaxKeys = 2
    MaxPoints = 3
    MaxAsks = 2
    MaxFaults = 1
INVARIANTS
    RoomIsPaidOnce
PROPERTIES
    NoPairingForgotten
    ForwardDrains
    FileCatchesUp
CHECK_DEADLOCK FALSE
