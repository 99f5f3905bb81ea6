SPECIFICATION FairSpec
CONSTANTS
    Subscribers = {s1, s2}
    Events = {e1, e2}
    Wants <- MCWants
    Batch = 2
    MaxAttempts = 2
    MaxFaults = 1
INVARIANTS AllOrNobody
PROPERTIES PromiseKept EveryNoteSettles
CHECK_DEADLOCK FALSE
