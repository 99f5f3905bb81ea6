SPECIFICATION WindowFairSpec
CONSTANTS
    Operators = {o1}
    Windows <- MCWindows
    Marks = {1, 2}
    MarkSets <- MCMarkSets
    MaxTime = 5
    MaxRequests = 3
    MaxFaults = 1
INVARIANTS RemindersAreKept MovesAreSaid
PROPERTIES ClosedStaysClosed OpensByItself
CHECK_DEADLOCK FALSE
